---- MODULE Spec2Model ----
(***************************************************************************)
(* Model of novasite: the section matcher (section_analyzer.py), the site   *)
(* acquisition and the section extractor (website_extractor.py), the site  *)
(* assembler (code_assembler.py) and the external scorer's analyzer        *)
(* (gemini_analyzer.py).                                                   *)
(*                                                                         *)
(* Texts are sequences of one-character strings, so that lower(), split()  *)
(* and strip() are modelled by what they do.  Confidences are exact        *)
(* fractions <<numerator, denominator>> in lowest terms.                   *)
(***************************************************************************)
EXTENDS Integers, Sequences, FiniteSets, TLC

VARIABLES
    \* _calculate_text_similarity(text1, text2) and its returned value
    text1, text2, similarity,
    \* analyze_section: its arguments (the screenshot; the HTML files found in
    \* the site folder, with what goes wrong while each is analysed), its
    \* position, its locals and what it returns or raises
    screenshot, html_files, faults, pc, idx, best_match, best_score,
    result, error,
    \* extract_section: its arguments (section_info, section_name; the files
    \* of the site on disk), its position, its locals, the files it has put
    \* under extracted_sections, what it returns or raises, the bundles
    \* returned so far and the number of calls made
    section_info, section_name, site_files, ex_pc, section_element,
    css_files, js_files, section_files, extracted, ex_error, bundles, calls,
    \* assemble_site: its arguments (sections, site_structure), the step at
    \* which an I/O error strikes, its position, its locals, the files written
    \* under the output folder, the copies made, the steps that failed, and
    \* what it returns or raises
    sections, site_structure, io_fault, as_pc, site_output_dir, site_out,
    copied, failed, output_path, as_error,
    \* extract_website: its argument, the files under extracted_sites, its
    \* position, the tools tried with their outcome, and what it returns or
    \* raises
    url, sites_disk, acq_pc, attempts, acquired, acq_error,
    \* one scoring strategy of SectionAnalyzer applied on its own: the parsed
    \* document, the strategy, the position of the element given to
    \* _generate_css_selector (0 for the other strategies), what it returns
    doc, strategy, position, returned,
    \* GeminiAnalyzer.enhance_section_extraction: whether self.client is set,
    \* whether the screenshot and the HTML file can be opened, the parsed
    \* document, the section name, whether generate_content raises and the
    \* text it answers otherwise, its position, the number of calls of
    \* generate_content, the analysis in hand and what it returns
    client, shot_opens, html_opens, gem_soup, gem_name, call_raises,
    response_text, gem_pc, gem_calls, analysis, enhanced

simVars == <<text1, text2, similarity>>

matchVars == <<screenshot, html_files, faults, pc, idx, best_match, best_score,
               result, error>>

extractVars == <<section_info, section_name, site_files, ex_pc, section_element,
                 css_files, js_files, section_files, extracted, ex_error,
                 bundles, calls>>

vars == <<text1, text2, similarity,
          screenshot, html_files, faults, pc, idx, best_match, best_score,
          result, error,
          section_info, section_name, site_files, ex_pc, section_element,
          css_files, js_files, section_files, extracted, ex_error,
          bundles, calls,
          sections, site_structure, io_fault, as_pc, site_output_dir, site_out,
          copied, failed, output_path, as_error,
          url, sites_disk, acq_pc, attempts, acquired, acq_error,
          doc, strategy, position, returned,
          client, shot_opens, html_opens, gem_soup, gem_name, call_raises,
          response_text, gem_pc, gem_calls, analysis, enhanced>>

assembleVars == <<sections, site_structure, io_fault, as_pc, site_output_dir,
                  site_out, copied, failed, output_path, as_error>>

acquireVars == <<url, sites_disk, acq_pc, attempts, acquired, acq_error>>

strategyVars == <<doc, strategy, position, returned>>

geminiVars == <<client, shot_opens, html_opens, gem_soup, gem_name, call_raises,
                response_text, gem_pc, gem_calls, analysis, enhanced>>

\* the variables each component leaves alone
notSimVars == <<matchVars, extractVars, assembleVars, acquireVars, strategyVars,
                geminiVars>>

notMatchVars == <<simVars, extractVars, assembleVars, acquireVars, strategyVars,
                  geminiVars>>

notExtractVars == <<simVars, matchVars, assembleVars, acquireVars, strategyVars,
                    geminiVars>>

notAssembleVars == <<simVars, matchVars, extractVars, acquireVars, strategyVars,
                     geminiVars>>

notAcquireVars == <<simVars, matchVars, extractVars, assembleVars, strategyVars,
                    geminiVars>>

notStrategyVars == <<simVars, matchVars, extractVars, assembleVars, acquireVars,
                     geminiVars>>

notGeminiVars == <<simVars, matchVars, extractVars, assembleVars, acquireVars,
                   strategyVars>>

\* ------------------------------------------------------------------------
\* Bounds
\* ------------------------------------------------------------------------

\* longest text given to _calculate_text_similarity in SpecSim
MaxTextLen == 3

\* most elements in a document given to a scoring strategy in SpecStrategy
MaxElements == 2

\* most HTML files in the site folder given to analyze_section
MaxDocs == 2

\* most calls of extract_section in SpecReextract
MaxExtractions == 2

\* most sections given to assemble_site
MaxSections == 2

\* ------------------------------------------------------------------------
\* Fractions
\* ------------------------------------------------------------------------

RECURSIVE GCD(_, _)
GCD(a, b) == IF b = 0 THEN a ELSE GCD(b, a % b)

\* len(intersection) / len(union): the quotient n/d in lowest terms
Frac(n, d) == IF n = 0 THEN <<0, 1>> ELSE <<n \div GCD(n, d), d \div GCD(n, d)>>

\* a > b on fractions
FracGt(a, b) == a[1] * b[2] > b[1] * a[2]

FracGe(a, b) == a[1] * b[2] >= b[1] * a[2]

Zero == <<0, 1>>

One == <<1, 1>>

\* ------------------------------------------------------------------------
\* str operations
\* ------------------------------------------------------------------------

UpperLetters == <<"A","B","C","D","E","F","G","H","I","J","K","L","M",
                  "N","O","P","Q","R","S","T","U","V","W","X","Y","Z">>

LowerLetters == <<"a","b","c","d","e","f","g","h","i","j","k","l","m",
                  "n","o","p","q","r","s","t","u","v","w","x","y","z">>

\* str.lower() on one character
LowerChar(c) ==
    IF \E k \in 1..26 : UpperLetters[k] = c
    THEN LowerLetters[CHOOSE k \in 1..26 : UpperLetters[k] = c]
    ELSE c

\* str.lower()
Lower(text) == [k \in 1..Len(text) |-> LowerChar(text[k])]

\* the characters str.split() and str.strip() treat as whitespace
IsSpace(c) == c \in {" ", "\t", "\n"}

\* str.split() without arguments: the maximal runs of non-whitespace, in order
RECURSIVE SplitFrom(_, _, _)
SplitFrom(text, k, word) ==
    IF k > Len(text)
    THEN IF word = <<>> THEN <<>> ELSE <<word>>
    ELSE IF IsSpace(text[k])
         THEN IF word = <<>>
              THEN SplitFrom(text, k + 1, <<>>)
              ELSE <<word>> \o SplitFrom(text, k + 1, <<>>)
         ELSE SplitFrom(text, k + 1, Append(word, text[k]))

Split(text) == SplitFrom(text, 1, <<>>)

\* set(words)
SetOf(seq) == {seq[k] : k \in 1..Len(seq)}

\* str.strip(): drop leading and trailing whitespace
RECURSIVE LStrip(_)
LStrip(text) ==
    IF text # <<>> /\ IsSpace(Head(text)) THEN LStrip(Tail(text)) ELSE text

RECURSIVE RStrip(_)
RStrip(text) ==
    IF text # <<>> /\ IsSpace(text[Len(text)])
    THEN RStrip(SubSeq(text, 1, Len(text) - 1))
    ELSE text

Strip(text) == RStrip(LStrip(text))

\* ------------------------------------------------------------------------
\* SectionAnalyzer._calculate_text_similarity
\* ------------------------------------------------------------------------

\* plausible slip: the texts are compared without lowercasing
CalculateTextSimilarity_CaseSensitive(t1, t2) ==
    IF t1 = <<>> \/ t2 = <<>>
    THEN Zero
    ELSE LET words1 == SetOf(Split(t1))
             words2 == SetOf(Split(t2))
         IN  IF words1 = {} \/ words2 = {}
             THEN Zero
             ELSE Frac(Cardinality(words1 \cap words2),
                       Cardinality(words1 \cup words2))

CalculateTextSimilarity(t1, t2) ==
    IF t1 = <<>> \/ t2 = <<>>
    THEN Zero
    ELSE LET words1 == SetOf(Split(Lower(t1)))
             words2 == SetOf(Split(Lower(t2)))
             intersection == words1 \cap words2
             union == words1 \cup words2
         IN  IF words1 = {} \/ words2 = {}
             THEN Zero
             ELSE IF union # {}
                  THEN Frac(Cardinality(intersection), Cardinality(union))
                  ELSE Zero

\* ------------------------------------------------------------------------
\* Documents: what BeautifulSoup(html_content, 'html.parser') gives
\* ------------------------------------------------------------------------

\* An element in document order.  parent is the position of the enclosing
\* element (0 at top level); an element's own text comes before its children.
\* id = "" and href = <<>> stand for an absent attribute.
El(tag, id, classes, text, parent) ==
    [tag |-> tag, id |-> id, classes |-> classes, text |-> text,
     parent |-> parent, rel |-> "", href |-> <<>>]

\* <link rel=... href=...> and <script src=...>
Ref(tag, rel, href, parent) ==
    [tag |-> tag, id |-> "", classes |-> <<>>, text |-> <<>>,
     parent |-> parent, rel |-> rel, href |-> href]

\* j is element i or lies inside it
RECURSIVE InSubtree(_, _, _)
InSubtree(soup, i, j) ==
    \/ j = i
    \/ (j # 0 /\ soup[j].parent # 0 /\ InSubtree(soup, i, soup[j].parent))

\* get_text(strip=True): the stripped strings of the chosen elements, in
\* document order, joined with the empty separator
RECURSIVE JoinStripped(_, _, _)
JoinStripped(soup, i, k) ==
    IF k > Len(soup) THEN <<>>
    ELSE (IF InSubtree(soup, i, k) THEN Strip(soup[k].text) ELSE <<>>)
         \o JoinStripped(soup, i, k + 1)

\* element.get_text(strip=True)
ElementGetText(soup, i) == JoinStripped(soup, i, i)

\* soup.get_text(strip=True)
RECURSIVE SoupTextFrom(_, _)
SoupTextFrom(soup, k) ==
    IF k > Len(soup) THEN <<>>
    ELSE Strip(soup[k].text) \o SoupTextFrom(soup, k + 1)

SoupGetText(soup) == SoupTextFrom(soup, 1)

\* the positions of a set in document order
RECURSIVE InDocumentOrder(_)
InDocumentOrder(positions) ==
    IF positions = {} THEN <<>>
    ELSE LET m == CHOOSE a \in positions : \A b \in positions : a <= b
         IN  <<m>> \o InDocumentOrder(positions \ {m})

\* soup.find_all([tags])
FindAll(soup, tags) ==
    InDocumentOrder({k \in 1..Len(soup) : soup[k].tag \in tags})

\* soup.find(...): position of the first element found, 0 for None
First(positions) == IF positions = <<>> THEN 0 ELSE Head(positions)

\* soup.find(tag)
Find(soup, tag) == First(FindAll(soup, {tag}))

\* soup.find(class_=name)
FindByClass(soup, name) ==
    First(InDocumentOrder({k \in 1..Len(soup) : name \in SetOf(soup[k].classes)}))

\* soup.find(id=name)
FindById(soup, name) ==
    First(InDocumentOrder({k \in 1..Len(soup) : soup[k].id = name}))

\* soup.find('div', class_='container')
FindTagWithClass(soup, tag, name) ==
    First(InDocumentOrder({k \in 1..Len(soup) :
              soup[k].tag = tag /\ name \in SetOf(soup[k].classes)}))

\* ------------------------------------------------------------------------
\* CSS selectors.  A selector string is a sequence of tokens: "#" and "."
\* are the id and class marks, every other token is a name.
\* ------------------------------------------------------------------------

\* the compound selector read from the tokens: the tag, id and classes an
\* element must have ("" = any)
RECURSIVE ParseSelector(_, _)
ParseSelector(tokens, acc) ==
    IF tokens = <<>> THEN acc
    ELSE IF Head(tokens) = "#" /\ Len(tokens) >= 2
         THEN ParseSelector(SubSeq(tokens, 3, Len(tokens)),
                            [acc EXCEPT !.id = tokens[2]])
    ELSE IF Head(tokens) = "." /\ Len(tokens) >= 2
         THEN ParseSelector(SubSeq(tokens, 3, Len(tokens)),
                            [acc EXCEPT !.classes = @ \cup {tokens[2]}])
    ELSE ParseSelector(Tail(tokens), [acc EXCEPT !.tag = Head(tokens)])

Matches(e, selector) ==
    LET want == ParseSelector(selector, [tag |-> "", id |-> "", classes |-> {}])
    IN  /\ selector # <<>>
        /\ want.tag \in {"", e.tag}
        /\ want.id \in {"", e.id}
        /\ want.classes \subseteq SetOf(e.classes)

\* soup.select(selector)
Select(soup, selector) ==
    InDocumentOrder({k \in 1..Len(soup) : Matches(soup[k], selector)})

\* soup.select_one(selector): 0 for None
SelectOne(soup, selector) == First(Select(soup, selector))

\* ------------------------------------------------------------------------
\* SectionAnalyzer: the scoring strategies
\* ------------------------------------------------------------------------

\* "screenshot_text_placeholder"
Placeholder == <<"s","c","r","e","e","n","s","h","o","t","_","t","e","x","t","_",
                 "p","l","a","c","e","h","o","l","d","e","r">>

\* _extract_text_from_screenshot: the same text for every screenshot
ExtractTextFromScreenshot(shot) == Placeholder

\* a strategy's result dictionary; None is the result with method "None"
Result(html_file, confidence, method, css_selector) ==
    [html_file |-> html_file, confidence |-> confidence,
     method |-> method, css_selector |-> css_selector]

None == Result(<<>>, Zero, "None", <<>>)

\* sep.join(names)
RECURSIVE Join(_, _)
Join(names, sep) ==
    IF names = <<>> THEN <<>>
    ELSE IF Len(names) = 1 THEN names
    ELSE <<Head(names), sep>> \o Join(Tail(names), sep)

\* str.replace(old, new)
Replace(tokens, old, new) ==
    [k \in 1..Len(tokens) |-> IF tokens[k] = old THEN new ELSE tokens[k]]

\* plausible slip: the classes are looked at before the id
GenerateCssSelector_ClassesFirst(element) ==
    IF element.classes # <<>>
    THEN <<".">> \o Replace(Join(element.classes, " "), " ", ".")
    ELSE IF element.id # ""
         THEN <<"#", element.id>>
         ELSE <<element.tag>>

\* _generate_css_selector
GenerateCssSelector(element) ==
    IF element.id # ""
    THEN <<"#", element.id>>
    ELSE IF element.classes # <<>>
         THEN <<".">> \o Replace(Join(element.classes, " "), " ", ".")
         ELSE <<element.tag>>

VisualThreshold == <<3, 10>>

TextThreshold == <<2, 10>>

StructureConfidence == <<1, 2>>

FallbackConfidence == <<1, 10>>

MinTextLen == 10

\* the elements _analyze_by_visual_elements collects in matching_elements
MatchingElements(soup, shot) ==
    LET screenshot_text == ExtractTextFromScreenshot(shot)
    IN  LET RECURSIVE From(_)
            From(k) ==
                IF k > Len(soup) THEN <<>>
                ELSE LET element_text == ElementGetText(soup, k)
                     IN  (IF /\ soup[k].tag \in {"div", "section", "article", "main"}
                             /\ element_text # <<>>
                             /\ Len(element_text) > MinTextLen
                             /\ FracGt(CalculateTextSimilarity(screenshot_text, element_text),
                                       VisualThreshold)
                          THEN <<k>> ELSE <<>>) \o From(k + 1)
        IN  From(1)

\* the similarity recorded for a collected element
ElementSimilarity(soup, shot, k) ==
    CalculateTextSimilarity(ExtractTextFromScreenshot(shot), ElementGetText(soup, k))

\* plausible slip: among equal similarities the last in document order wins
BestMatchingElement_LastAmongEquals(soup, shot, matching) ==
    CHOOSE k \in SetOf(matching) :
        LET similarity_k == ElementSimilarity(soup, shot, k)
        IN  \A j \in SetOf(matching) :
                LET similarity_j == ElementSimilarity(soup, shot, j)
                IN  \/ FracGt(similarity_k, similarity_j)
                    \/ (similarity_k = similarity_j /\ k >= j)

\* matching_elements.sort(key=similarity, reverse=True)[0]: the stable sort
\* keeps document order among equal similarities
BestMatchingElement(soup, shot, matching) ==
    CHOOSE k \in SetOf(matching) :
        LET similarity_k == ElementSimilarity(soup, shot, k)
        IN  \A j \in SetOf(matching) :
                LET similarity_j == ElementSimilarity(soup, shot, j)
                IN  \/ FracGt(similarity_k, similarity_j)
                    \/ (similarity_k = similarity_j /\ k <= j)

\* _analyze_by_visual_elements
AnalyzeByVisualElements(soup, shot, html_file) ==
    LET matching == MatchingElements(soup, shot)
    IN  IF matching # <<>>
        THEN LET best == BestMatchingElement(soup, shot, matching)
             IN  Result(html_file, ElementSimilarity(soup, shot, best),
                        "visual_elements", GenerateCssSelector(soup[best]))
        ELSE None

\* _analyze_by_text_content
AnalyzeByTextContent(soup, shot, html_file) ==
    LET html_text == SoupGetText(soup)
        screenshot_text == ExtractTextFromScreenshot(shot)
        sim == CalculateTextSimilarity(screenshot_text, html_text)
    IN  IF FracGt(sim, TextThreshold)
        THEN Result(html_file, sim, "text_content", <<"body">>)
        ELSE None

SectionSelectors ==
    << <<"main">>, <<"section">>, <<"article">>, <<".", "container">>,
       <<".", "content">>, <<".", "main-content">>, <<"#", "content">>,
       <<"#", "main">> >>

\* plausible slip: the loop does not stop at the first selector that matches
RECURSIVE StructureFrom_LastMatching(_, _, _)
StructureFrom_LastMatching(soup, html_file, k) ==
    IF k > Len(SectionSelectors) THEN None
    ELSE LET later == StructureFrom_LastMatching(soup, html_file, k + 1)
         IN  IF later # None THEN later
             ELSE IF Select(soup, SectionSelectors[k]) # <<>>
                  THEN Result(html_file, StructureConfidence, "structure",
                              SectionSelectors[k])
                  ELSE None

\* _analyze_by_structure
RECURSIVE StructureFrom(_, _, _)
StructureFrom(soup, html_file, k) ==
    IF k > Len(SectionSelectors) THEN None
    ELSE IF Select(soup, SectionSelectors[k]) # <<>>
         THEN Result(html_file, StructureConfidence, "structure", SectionSelectors[k])
         ELSE StructureFrom(soup, html_file, k + 1)

AnalyzeByStructure(soup, shot, html_file) == StructureFrom(soup, html_file, 1)

\* methods = [visual, text, structure]
Methods == <<"visual_elements", "text_content", "structure">>

\* method(soup, screenshot, html_file)
RunMethod(method, soup, shot, html_file) ==
    IF method = "visual_elements" THEN AnalyzeByVisualElements(soup, shot, html_file)
    ELSE IF method = "text_content" THEN AnalyzeByTextContent(soup, shot, html_file)
    ELSE AnalyzeByStructure(soup, shot, html_file)

\* ------------------------------------------------------------------------
\* The site tree of the runs: its HTML files and their parsed content
\* ------------------------------------------------------------------------

SiteFolder == <<"extracted_sites", "example_com">>

SP == <<" ">>

Welcome == <<"W","e","l","c","o","m","e">>

Copyright == <<"C","o","p","y","r","i","g","h","t">>

AboutUs == <<"A","b","o","u","t"," ","u","s",",","t","h","e"," ","t","e","a","m">>

\* header div "Welcome", footer div "Copyright": no strategy qualifies
WelcomeSoup ==
    << El("body", "", <<>>, <<>>, 0),
       El("div", "", <<"header">>, Welcome, 1),
       El("div", "", <<"footer">>, Copyright, 1) >>

\* a main element without the screenshot's words: structure only
AboutSoup ==
    << El("body", "", <<>>, <<>>, 0),
       El("main", "", <<>>, AboutUs, 1) >>

\* visual 1/3 and text 1/3 below structure 1/2
ThirdSoup ==
    << El("body", "", <<>>, <<>>, 0),
       El("main", "", <<>>, <<>>, 1),
       El("div", "hero", <<"banner">>, Placeholder \o SP \o <<"A","a">> \o SP \o <<"b">>, 1) >>

\* visual 1/2 and text 1/2, no structural container
HalfSoup ==
    << El("body", "", <<>>, <<>>, 0),
       El("div", "", <<"box", "card">>, SP \o Placeholder \o SP \o SP \o <<"x">> \o SP, 1) >>

\* visual 1, text 1, structure 1/2
FullSoup ==
    << El("body", "", <<>>, <<>>, 0),
       El("section", "", <<>>, <<"S","c","r","e","e","n","s","h","o","t","_","T","E","X","T","_",
                 "p","l","a","c","e","h","o","l","d","e","r">>, 1) >>

\* the paragraph's "a" joins the div's last word: visual 1/3, text 1/2,
\* structure 1/2
MergeSoup ==
    << El("body", "", <<>>, <<>>, 0),
       El("div", "", <<>>, Placeholder \o SP \o <<"a","a">> \o SP \o <<"a">>, 1),
       El("p", "", <<>>, <<"a">>, 1),
       El("article", "", <<>>, <<>>, 1) >>

MatchSite ==
    { [path |-> SiteFolder \o <<"welcome.html">>, soup |-> WelcomeSoup],
      [path |-> SiteFolder \o <<"about.html">>, soup |-> AboutSoup],
      [path |-> SiteFolder \o <<"third.html">>, soup |-> ThirdSoup],
      [path |-> SiteFolder \o <<"shop", "half.html">>, soup |-> HalfSoup],
      [path |-> SiteFolder \o <<"full.htm">>, soup |-> FullSoup],
      [path |-> SiteFolder \o <<"shop", "merge.html">>, soup |-> MergeSoup] }

MatchPaths == {d.path : d \in MatchSite}

\* BeautifulSoup(f.read(), 'html.parser') of the file at the path
SoupOf(html_file) == (CHOOSE d \in MatchSite : d.path = html_file).soup

\* the screenshots: one cv2.imread cannot load, one showing the text "Welcome"
Screenshots == {[loads |-> FALSE, depicts |-> <<>>],
                [loads |-> TRUE, depicts |-> Welcome]}

\* method(soup, screenshot, html_file) for every file of the site, screenshot
\* and method, evaluated once
MethodResult ==
    [html_file \in MatchPaths |-> [shot \in Screenshots |-> [m \in SetOf(Methods) |->
        RunMethod(m, SoupOf(html_file), shot, html_file)]]]

\* the result of one turn of "for method in methods"; a method in which an
\* exception occurs contributes None
TryMethod(method, shot, html_file, fault) ==
    IF fault = method THEN None ELSE MethodResult[html_file][shot][method]

\* plausible slip: ">=" for ">", so the later method wins a tie
RECURSIVE BestOfMethods_LaterWins(_, _, _, _, _)
BestOfMethods_LaterWins(k, shot, html_file, fault, best_result) ==
    IF k > Len(Methods) THEN best_result
    ELSE LET res == TryMethod(Methods[k], shot, html_file, fault)
         IN  BestOfMethods_LaterWins(k + 1, shot, html_file, fault,
                 IF res # None /\ FracGe(res.confidence, best_result.confidence)
                 THEN res ELSE best_result)

\* plausible slip: the first method that qualifies is kept, whatever its score
RECURSIVE BestOfMethods_FirstQualifying(_, _, _, _, _)
BestOfMethods_FirstQualifying(k, shot, html_file, fault, best_result) ==
    IF k > Len(Methods) THEN best_result
    ELSE LET res == TryMethod(Methods[k], shot, html_file, fault)
         IN  BestOfMethods_FirstQualifying(k + 1, shot, html_file, fault,
                 IF res # None /\ best_result = None
                 THEN res ELSE best_result)

\* _analyze_html_file: None when the file cannot be read or parsed, else
\* the first result of highest confidence among the methods in order
RECURSIVE BestOfMethods(_, _, _, _, _)
BestOfMethods(k, shot, html_file, fault, best_result) ==
    IF k > Len(Methods) THEN best_result
    ELSE LET res == TryMethod(Methods[k], shot, html_file, fault)
         IN  BestOfMethods(k + 1, shot, html_file, fault,
                 IF res # None /\ FracGt(res.confidence, best_result.confidence)
                 THEN res ELSE best_result)

\* what can go wrong while one file is analysed: nothing, the file cannot be
\* read or parsed, or an exception inside one of the methods
Faults == {"ok", "unreadable"} \cup SetOf(Methods)

\* _analyze_html_file
AnalyzeHtmlFile(html_file, shot, fault) ==
    IF fault = "unreadable" THEN None
    ELSE BestOfMethods(1, shot, html_file, fault, None)

\* self._analyze_html_file(html_file, screenshot) for every file of the site,
\* screenshot and fault, evaluated once
MatchInfo ==
    [html_file \in MatchPaths |-> [shot \in Screenshots |-> [fault \in Faults |->
        AnalyzeHtmlFile(html_file, shot, fault)]]]

\* the lists os.walk can give: distinct files of the site, in any order
RECURSIVE FileLists(_)
FileLists(n) ==
    IF n = 0 THEN {<<>>}
    ELSE FileLists(n - 1) \cup
         {Append(l, f) : l \in {m \in FileLists(n - 1) : Len(m) = n - 1},
                         f \in MatchPaths}

DistinctLists(n) ==
    {l \in FileLists(n) : \A a, b \in 1..Len(l) : l[a] = l[b] => a = b}

\* ------------------------------------------------------------------------
\* Spec: SectionAnalyzer.analyze_section
\* ------------------------------------------------------------------------

SimIdle ==
    /\ text1 = <<>>
    /\ text2 = <<>>
    /\ similarity = <<-1, 1>>

ExtractIdle ==
    /\ section_info = [html_file |-> <<>>, css_selector |-> <<>>,
                       class_name |-> "", element_id |-> ""]
    /\ section_name = ""
    /\ site_files = {}
    /\ ex_pc = "idle"
    /\ section_element = 0
    /\ css_files = <<>>
    /\ js_files = <<>>
    /\ section_files = {}
    /\ extracted = [section_name |-> ""]
    /\ ex_error = ""
    /\ bundles = <<>>
    /\ calls = 0

AssembleIdle ==
    /\ sections = <<>>
    /\ site_structure = [title |-> <<>>, section_order |-> <<>>, pages |-> <<>>]
    /\ io_fault = "none"
    /\ as_pc = "idle"
    /\ site_output_dir = <<>>
    /\ site_out = {}
    /\ copied = <<>>
    /\ failed = {}
    /\ output_path = <<>>
    /\ as_error = ""

AcquireIdle ==
    /\ url = <<>>
    /\ sites_disk = {}
    /\ acq_pc = "idle"
    /\ attempts = <<>>
    /\ acquired = <<>>
    /\ acq_error = ""

StrategyIdle ==
    /\ doc = <<>>
    /\ strategy = "idle"
    /\ position = 0
    /\ returned = None

GeminiIdle ==
    /\ client = FALSE
    /\ shot_opens = FALSE
    /\ html_opens = FALSE
    /\ gem_soup = <<>>
    /\ gem_name = ""
    /\ call_raises = FALSE
    /\ response_text = <<>>
    /\ gem_pc = "idle"
    /\ gem_calls = 0
    /\ analysis = None
    /\ enhanced = None

MatchIdle ==
    /\ screenshot = [loads |-> FALSE, depicts |-> <<>>]
    /\ html_files = <<>>
    /\ faults = <<>>
    /\ pc = "idle"
    /\ idx = 0
    /\ best_match = None
    /\ best_score = Zero
    /\ result = None
    /\ error = ""

MatchInit ==
    /\ screenshot \in Screenshots
    /\ html_files \in DistinctLists(MaxDocs)
    /\ faults \in [1..Len(html_files) -> Faults]
    /\ pc = "imread"
    /\ idx = 0
    /\ best_match = None
    /\ best_score = Zero
    /\ result = None
    /\ error = ""

Init ==
    /\ MatchInit /\ SimIdle /\ ExtractIdle /\ AssembleIdle /\ AcquireIdle
    /\ StrategyIdle /\ GeminiIdle

\* cv2.imread, then _find_html_files
LoadScreenshot ==
    /\ pc = "imread"
    /\ IF screenshot.loads
       THEN pc' = "loop" /\ idx' = 1 /\ error' = error
       ELSE pc' = "raised" /\ idx' = idx /\ error' = "ScreenshotError"
    /\ UNCHANGED <<screenshot, html_files, faults, best_match, best_score, result>>
    /\ UNCHANGED notMatchVars

\* one turn of "for html_file in html_files"
AnalyzeNextFile ==
    /\ pc = "loop"
    /\ idx <= Len(html_files)
    /\ LET match_info == MatchInfo[html_files[idx]][screenshot][faults[idx]]
       IN  IF match_info # None /\ FracGt(match_info.confidence, best_score)
           THEN best_score' = match_info.confidence /\ best_match' = match_info
           ELSE UNCHANGED <<best_score, best_match>>
    /\ idx' = idx + 1
    /\ UNCHANGED <<screenshot, html_files, faults, pc, result, error>>
    /\ UNCHANGED notMatchVars

\* return best_match
ReturnBestMatch ==
    /\ pc = "loop"
    /\ idx > Len(html_files)
    /\ best_match # None
    /\ result' = best_match
    /\ pc' = "returned"
    /\ UNCHANGED <<screenshot, html_files, faults, idx, best_match, best_score, error>>
    /\ UNCHANGED notMatchVars

\* plausible slip: no fallback, the absence of a match is an error
ReturnFallback_Raises ==
    /\ pc = "loop"
    /\ idx > Len(html_files)
    /\ best_match = None
    /\ html_files # <<>>
    /\ error' = "NoMatchError"
    /\ pc' = "raised"
    /\ UNCHANGED <<screenshot, html_files, faults, idx, best_match, best_score, result>>
    /\ UNCHANGED notMatchVars

\* the fallback on the first HTML file
ReturnFallback ==
    /\ pc = "loop"
    /\ idx > Len(html_files)
    /\ best_match = None
    /\ html_files # <<>>
    /\ result' = Result(html_files[1], FallbackConfidence, "fallback", <<"body">>)
    /\ pc' = "returned"
    /\ UNCHANGED <<screenshot, html_files, faults, idx, best_match, best_score, error>>
    /\ UNCHANGED notMatchVars

\* plausible slip: the fallback is returned without looking at html_files
RaiseNoHtmlFiles_ReturnsFallback ==
    /\ pc = "loop"
    /\ idx > Len(html_files)
    /\ best_match = None
    /\ html_files = <<>>
    /\ result' = Result(<<>>, FallbackConfidence, "fallback", <<"body">>)
    /\ pc' = "returned"
    /\ UNCHANGED <<screenshot, html_files, faults, idx, best_match, best_score, error>>
    /\ UNCHANGED notMatchVars

\* raise Exception("No HTML files found in the extracted site")
RaiseNoHtmlFiles ==
    /\ pc = "loop"
    /\ idx > Len(html_files)
    /\ best_match = None
    /\ html_files = <<>>
    /\ error' = "NoDocumentsError"
    /\ pc' = "raised"
    /\ UNCHANGED <<screenshot, html_files, faults, idx, best_match, best_score, result>>
    /\ UNCHANGED notMatchVars

Next ==
    \/ LoadScreenshot
    \/ AnalyzeNextFile
    \/ ReturnBestMatch
    \/ ReturnFallback
    \/ RaiseNoHtmlFiles

Spec == Init /\ [][Next]_vars

\* ---- helpers of the claims about analyze_section ------------------------

\* what method number k produces on file number i of this run
Cand(i, k) == MethodResult[html_files[i]][screenshot][Methods[k]]

\* the (file, method) pairs that produce a candidate in this run: the file
\* is read and parsed, the method does not raise and it qualifies
Cands ==
    {p \in (1..Len(html_files)) \X (1..Len(Methods)) :
        /\ faults[p[1]] \notin {"unreadable", Methods[p[2]]}
        /\ Cand(p[1], p[2]) # None}

\* visual-element > text-content > structural > external scorer > fallback
Priority(method) ==
    CASE method = "visual_elements" -> 1
      [] method = "text_content" -> 2
      [] method = "structure" -> 3
      [] method = "gemini_ai" -> 4
      [] OTHER -> 5

FallbackResult(html_file) ==
    Result(html_file, FallbackConfidence, "fallback", <<"body">>)

\* ---- C1 ----------------------------------------------------------------

\* C1 as stated: the result carries the maximum confidence produced by any
\* strategy on any document, and no candidate of equal confidence comes from
\* a strategy of higher priority.
C1_MaxConfidencePriorityTie ==
    pc = "returned" =>
        /\ FracGe(result.confidence, FallbackConfidence)
        /\ \A p \in Cands :
              /\ FracGe(result.confidence, Cand(p[1], p[2]).confidence)
              /\ Cand(p[1], p[2]).confidence = result.confidence =>
                    Priority(result.method) <= p[2]

\* C1 amended: the result carries the maximum confidence produced by any
\* strategy on any document; among results of equal confidence the one of the
\* earliest document in the list is returned, and within that document the
\* one of the higher-priority strategy.
C1_MaxConfidenceFirstDocument ==
    pc = "returned" =>
        IF Cands = {}
        THEN result = FallbackResult(html_files[1])
        ELSE \E w \in Cands :
                /\ result = Cand(w[1], w[2])
                /\ \A p \in Cands :
                      /\ FracGe(result.confidence, Cand(p[1], p[2]).confidence)
                      /\ Cand(p[1], p[2]).confidence = result.confidence =>
                            (w[1] < p[1] \/ (w[1] = p[1] /\ w[2] <= p[2]))

\* a structural result returned although a later document has a
\* visual-element result of the same confidence
C1_Witness ==
    /\ pc = "returned"
    /\ result.method = "structure"
    /\ \E p \in Cands : /\ p[2] = 1
                        /\ Cand(p[1], 1).confidence = result.confidence
                        /\ Cand(p[1], 1).html_file # result.html_file

\* ---- C2 ----------------------------------------------------------------

\* C2: given a loaded screenshot and at least one document, analyze_section
\* never raises, it can always return, and if no strategy qualifies on any
\* document it returns confidence 0.1, method fallback, selector body.
C2_NeverRaisesWithDocument ==
    (screenshot.loads /\ html_files # <<>>) =>
        /\ pc # "raised"
        /\ error = ""
        /\ (pc = "loop" /\ idx > Len(html_files)) =>
              ENABLED (ReturnBestMatch \/ ReturnFallback)
        /\ (pc = "returned" /\ Cands = {}) =>
              /\ result.confidence = <<1, 10>>
              /\ result.method = "fallback"
              /\ result.css_selector = <<"body">>

\* the fallback returned for a site whose only document parses but has no
\* recognisable section
C2_Witness ==
    /\ pc = "returned"
    /\ result.method = "fallback"
    /\ \E i \in 1..Len(html_files) : faults[i] = "ok"

\* ---- C3 ----------------------------------------------------------------

\* C3: with a loaded screenshot, analyze_section fails exactly when there
\* are zero documents, with the no-documents error and no result.
C3_FailsIffNoDocuments ==
    (screenshot.loads /\ pc \in {"returned", "raised"}) =>
        /\ (pc = "raised") <=> (html_files = <<>>)
        /\ pc = "raised" => (error = "NoDocumentsError" /\ result = None)
        /\ pc = "returned" => (error = "" /\ result # None)

C3_Witness ==
    /\ screenshot.loads
    /\ html_files = <<>>
    /\ pc = "raised"
    /\ error = "NoDocumentsError"

\* ---- C4 ----------------------------------------------------------------

\* the files of the run that can be read and parsed, with their faults
RECURSIVE ReadablePositions(_)
ReadablePositions(k) ==
    IF k > Len(html_files) THEN <<>>
    ELSE (IF faults[k] # "unreadable" THEN <<k>> ELSE <<>>) \o ReadablePositions(k + 1)

\* analyze_section applied to the files at the given positions only
RECURSIVE BestOver(_, _, _)
BestOver(positions, k, best) ==
    IF k > Len(positions) THEN best
    ELSE LET match_info == MatchInfo[html_files[positions[k]]][screenshot][faults[positions[k]]]
         IN  BestOver(positions, k + 1,
                 IF match_info # None /\ FracGt(match_info.confidence, best.confidence)
                 THEN match_info ELSE best)

MatchOver(positions) ==
    LET best == BestOver(positions, 1, None)
    IN  IF best # None THEN best ELSE FallbackResult(html_files[positions[1]])

\* C4 as stated: analyze_section over the documents returns the same result
\* as over the documents without those that cannot be read or parsed, as
\* long as one remains.
C4_SameWithoutFailingDocuments ==
    (pc = "returned" /\ ReadablePositions(1) # <<>>) =>
        result = MatchOver(ReadablePositions(1))

\* ---- C5 ----------------------------------------------------------------

\* the documents of the run on which the visual-element strategy qualifies
\* with a score below the structural 0.5 and the structural one qualifies
BothQualify ==
    {i \in 1..Len(html_files) :
        /\ <<i, 1>> \in Cands
        /\ <<i, 3>> \in Cands
        /\ FracGt(StructureConfidence, Cand(i, 1).confidence)}

\* C5 as stated: for a document on which the visual-element strategy (with
\* its lower score) and the structural strategy (0.5) both qualify, the
\* result is the visual-element one.
C5_VisualBeatsStructural ==
    (pc = "returned" /\ Len(html_files) = 1 /\ BothQualify # {}) =>
        result = Cand(1, 1)

\* C5 amended: for such a document the result is never its visual-element
\* one; the confidence returned is at least the structural 0.5.
C5_HigherConfidenceBeatsPriority ==
    pc = "returned" =>
        \A i \in BothQualify :
            /\ result # Cand(i, 1)
            /\ FracGe(result.confidence, StructureConfidence)

C5_Witness ==
    /\ pc = "returned"
    /\ Len(html_files) = 1
    /\ BothQualify = {1}
    /\ Cand(1, 1).confidence = <<1, 3>>
    /\ result.method = "structure"

\* ---- C7 ----------------------------------------------------------------

\* C7 as stated: for the site of one document with the header div "Welcome"
\* and the footer div "Copyright", and a screenshot showing "Welcome", the
\* result designates the header div by the text-content or visual-element
\* method with confidence above 0.3.
C7_WelcomeSelectsHeader ==
    (/\ pc = "returned"
     /\ screenshot.depicts = Welcome
     /\ html_files = <<SiteFolder \o <<"welcome.html">> >>
     /\ faults[1] = "ok") =>
        /\ result.css_selector = <<".", "header">>
        /\ result.method \in {"text_content", "visual_elements"}
        /\ FracGt(result.confidence, <<3, 10>>)

\* ------------------------------------------------------------------------
\* Paths.  A path string is a sequence of tokens: "/" is the separator,
\* every other token a name ("http:" is the scheme of a URL).
\* ------------------------------------------------------------------------

\* os.path.join(name, name, ...)
PathString(components) == Join(components, "/")

\* os.path.join(a, b): b alone when b is absolute
OsPathJoin(a, b) ==
    IF b # <<>> /\ Head(b) = "/" THEN b
    ELSE IF a = <<>> \/ a[Len(a)] = "/" THEN a \o b
    ELSE a \o <<"/">> \o b

\* os.path.basename
RECURSIVE Basename(_)
Basename(path) ==
    IF path = <<>> THEN <<>>
    ELSE IF path[Len(path)] = "/" THEN <<>>
    ELSE Basename(SubSeq(path, 1, Len(path) - 1)) \o <<path[Len(path)]>>

\* href.startswith('/')
StartsWithSlash(href) == href # <<>> /\ Head(href) = "/"

\* href.startswith('http')
StartsWithHttp(href) == href # <<>> /\ Head(href) \in {"http:", "https:"}

\* the file a path string names: empty names and "." dropped, ".." resolved
RECURSIVE NormNames(_, _, _)
NormNames(path, k, acc) ==
    IF k > Len(path) THEN acc
    ELSE IF path[k] \in {"/", "."} THEN NormNames(path, k + 1, acc)
    ELSE IF path[k] = ".."
         THEN NormNames(path, k + 1,
                        IF acc # <<>> /\ acc[Len(acc)] # ".."
                        THEN SubSeq(acc, 1, Len(acc) - 1)
                        ELSE IF StartsWithSlash(path) THEN acc ELSE Append(acc, ".."))
    ELSE NormNames(path, k + 1, Append(acc, path[k]))

Normalize(path) == [abs |-> StartsWithSlash(path), names |-> NormNames(path, 1, <<>>)]

\* os.path.exists(path), the files on disk being given by their path strings
\* (the references of the runs name files, never directories)
Exists(path, files) == Normalize(path) \in {Normalize(f) : f \in files}

\* ------------------------------------------------------------------------
\* WebsiteExtractor._find_section_element and the dependencies
\* ------------------------------------------------------------------------

\* a key that section_info does not have
NoSelector == <<>>

NoName == ""

\* plausible slip: the fallback is tried before the class and id lookups
FindSectionElement_FallbackFirst(soup, info) ==
    LET by_selector == IF info.css_selector # NoSelector
                       THEN SelectOne(soup, info.css_selector) ELSE 0
        by_class == IF info.class_name # NoName
                    THEN FindByClass(soup, info.class_name) ELSE 0
        by_id == IF info.element_id # NoName
                 THEN FindById(soup, info.element_id) ELSE 0
    IN  IF by_selector # 0 THEN by_selector
        ELSE IF Find(soup, "body") # 0 THEN Find(soup, "body")
        ELSE IF by_class # 0 THEN by_class
        ELSE IF by_id # 0 THEN by_id
        ELSE IF Find(soup, "main") # 0 THEN Find(soup, "main")
        ELSE FindTagWithClass(soup, "div", "container")

\* plausible slip: body is the only fallback
FindSectionElement_BodyOnly(soup, info) ==
    LET by_selector == IF info.css_selector # NoSelector
                       THEN SelectOne(soup, info.css_selector) ELSE 0
        by_class == IF info.class_name # NoName
                    THEN FindByClass(soup, info.class_name) ELSE 0
        by_id == IF info.element_id # NoName
                 THEN FindById(soup, info.element_id) ELSE 0
    IN  IF by_selector # 0 THEN by_selector
        ELSE IF by_class # 0 THEN by_class
        ELSE IF by_id # 0 THEN by_id
        ELSE Find(soup, "body")

\* _find_section_element: the position of the element, 0 for None
FindSectionElement(soup, info) ==
    LET by_selector == IF info.css_selector # NoSelector
                       THEN SelectOne(soup, info.css_selector) ELSE 0
        by_class == IF info.class_name # NoName
                    THEN FindByClass(soup, info.class_name) ELSE 0
        by_id == IF info.element_id # NoName
                 THEN FindById(soup, info.element_id) ELSE 0
    IN  IF by_selector # 0 THEN by_selector
        ELSE IF by_class # 0 THEN by_class
        ELSE IF by_id # 0 THEN by_id
        ELSE IF Find(soup, "body") # 0 THEN Find(soup, "body")
        ELSE IF Find(soup, "main") # 0 THEN Find(soup, "main")
        ELSE FindTagWithClass(soup, "div", "container")

\* the loop body of _extract_css_dependencies and _extract_js_dependencies:
\* the paths kept for the references at the positions, in order
RECURSIVE ResolveRefs(_, _, _, _, _)
ResolveRefs(soup, positions, k, site_folder, files) ==
    IF k > Len(positions) THEN <<>>
    ELSE LET href == soup[positions[k]].href
             path == IF StartsWithSlash(href)
                     THEN OsPathJoin(site_folder, Tail(href))
                     ELSE OsPathJoin(site_folder, href)
             skipped == ~StartsWithSlash(href) /\ StartsWithHttp(href)
         IN  (IF href # <<>> /\ ~skipped /\ Exists(path, files)
              THEN <<path>> ELSE <<>>)
             \o ResolveRefs(soup, positions, k + 1, site_folder, files)

\* soup.find_all('link', rel='stylesheet')
StylesheetLinks(soup) ==
    InDocumentOrder({k \in 1..Len(soup) :
                        soup[k].tag = "link" /\ soup[k].rel = "stylesheet"})

\* soup.find_all('script', src=True)
ScriptsWithSrc(soup) ==
    InDocumentOrder({k \in 1..Len(soup) :
                        soup[k].tag = "script" /\ soup[k].href # <<>>})

\* _extract_css_dependencies
ExtractCssDependencies(soup, site_folder, files) ==
    ResolveRefs(soup, StylesheetLinks(soup), 1, site_folder, files)

\* _extract_js_dependencies
ExtractJsDependencies(soup, site_folder, files) ==
    ResolveRefs(soup, ScriptsWithSrc(soup), 1, site_folder, files)

\* ------------------------------------------------------------------------
\* The site tree of the extraction runs
\* ------------------------------------------------------------------------

Hero == <<"O","u","r"," ","h","e","r","o">>

\* index.html at the root of the site tree: head with references, body with
\* a hero div, a section, a main and a container
IndexSoup ==
    << El("head", "", <<>>, <<>>, 0),
       Ref("link", "stylesheet", <<"/", "css", "/", "site.css">>, 1),
       Ref("link", "stylesheet", <<"local.css">>, 1),
       Ref("link", "icon", <<"/", "favicon.ico">>, 1),
       Ref("script", "", <<"js", "/", "app.js">>, 1),
       Ref("script", "", <<"http:", "/", "/", "cdn", "/", "lib.js">>, 1),
       El("body", "", <<>>, <<>>, 0),
       El("div", "", <<"hero">>, Hero, 7),
       El("section", "top", <<>>, <<>>, 7),
       El("main", "", <<>>, <<>>, 7),
       El("div", "", <<"container">>, <<>>, 7) >>

\* blog/post.html, a fragment without body: references relative to its own
\* directory, a main holding a hero div
PostSoup ==
    << Ref("link", "stylesheet", <<"post.css">>, 0),
       Ref("link", "stylesheet", <<"https:", "/", "/", "cdn", "/", "x.css">>, 0),
       Ref("link", "stylesheet", <<>>, 0),
       Ref("script", "", <<"/", "js", "/", "app.js">>, 0),
       Ref("script", "", <<>>, 0),
       El("main", "", <<>>, <<>>, 0),
       El("div", "", <<"hero">>, Hero, 6) >>

\* blog/list.html: neither body nor main, a container and a hero div
ListSoup ==
    << El("div", "", <<"container">>, <<>>, 0),
       El("div", "top", <<"hero">>, Hero, 0) >>

\* frag.html: a lone hero div
FragSoup ==
    << El("div", "", <<"hero">>, Hero, 0) >>

\* twin.html: two stylesheets of the same file name in different folders of
\* the site, and a hero div
TwinSoup ==
    << Ref("link", "stylesheet", <<"post.css">>, 0),
       Ref("link", "stylesheet", <<"blog", "/", "post.css">>, 0),
       El("div", "", <<"hero">>, Hero, 0) >>

ExtractSite ==
    { [path |-> SiteFolder \o <<"index.html">>, soup |-> IndexSoup],
      [path |-> SiteFolder \o <<"twin.html">>, soup |-> TwinSoup],
      [path |-> SiteFolder \o <<"blog", "post.html">>, soup |-> PostSoup],
      [path |-> SiteFolder \o <<"blog", "list.html">>, soup |-> ListSoup],
      [path |-> SiteFolder \o <<"frag.html">>, soup |-> FragSoup] }

ExtractPaths == {d.path : d \in ExtractSite}

\* escape.html: references that leave the site tree, href="//host/x.css",
\* href="../x.css" and src="//host/x.js", next to one that stays inside, and
\* a hero div
EscapeSoup ==
    << Ref("link", "stylesheet", <<"/", "/", "host", "/", "x.css">>, 0),
       Ref("link", "stylesheet", <<"..", "/", "x.css">>, 0),
       Ref("link", "stylesheet", <<"local.css">>, 0),
       Ref("script", "", <<"/", "/", "host", "/", "x.js">>, 0),
       Ref("script", "", <<"js", "/", "app.js">>, 0),
       El("div", "", <<"hero">>, Hero, 0) >>

EscapeSite == { [path |-> SiteFolder \o <<"escape.html">>, soup |-> EscapeSoup] }

\* BeautifulSoup(f.read(), 'html.parser') of section_info's html_file
ExtractSoupOf(html_file) ==
    (CHOOSE d \in ExtractSite \cup EscapeSite : d.path = html_file).soup

\* the CSS and JS files that may be on disk
DiskFiles ==
    { PathString(SiteFolder \o <<"css", "site.css">>),
      PathString(SiteFolder \o <<"local.css">>),
      PathString(SiteFolder \o <<"post.css">>),
      PathString(SiteFolder \o <<"blog", "post.css">>),
      PathString(SiteFolder \o <<"js", "app.js">>) }

\* the section_info dictionaries of the runs: html_file, and the keys
\* css_selector, class_name and element_id when present
SectionInfos ==
    [html_file : ExtractPaths \cup {<<>>},
     css_selector : {NoSelector, <<".", "hero">>, <<"#", "top">>, <<"#", "ghost">>},
     class_name : {NoName, "hero", "ghost"},
     element_id : {NoName, "top", "ghost"}]

SectionNames == {"hero", "top"}

\* ------------------------------------------------------------------------
\* SpecExtract: WebsiteExtractor.extract_section
\* ------------------------------------------------------------------------

ExtractInit ==
    /\ section_info \in SectionInfos
    /\ section_name \in SectionNames
    /\ site_files \in SUBSET DiskFiles
    /\ ex_pc = "open"
    /\ section_element = 0
    /\ css_files = <<>>
    /\ js_files = <<>>
    /\ section_files = {}
    /\ extracted = [section_name |-> ""]
    /\ ex_error = ""
    /\ bundles = <<>>
    /\ calls = 1
    /\ SimIdle
    /\ MatchIdle
    /\ AssembleIdle
    /\ AcquireIdle
    /\ StrategyIdle
    /\ GeminiIdle

\* os.path.join('extracted_sections', section_name)
SectionFolder(name) == <<"extracted_sections", "/", name>>

\* os.makedirs(section_folder), section_info.get('html_file'), read and parse
OpenDocument ==
    /\ ex_pc = "open"
    /\ IF section_info.html_file = <<>>
       THEN ex_pc' = "raised" /\ ex_error' = "NoHtmlFileError"
       ELSE ex_pc' = "find" /\ ex_error' = ex_error
    /\ UNCHANGED <<section_info, section_name, site_files, section_element,
                   css_files, js_files, section_files, extracted, bundles, calls>>
    /\ UNCHANGED notExtractVars

\* section_element = self._find_section_element(soup, section_info)
FindSection ==
    /\ ex_pc = "find"
    /\ section_element' = FindSectionElement(ExtractSoupOf(section_info.html_file),
                                             section_info)
    /\ IF section_element' = 0
       THEN ex_pc' = "raised" /\ ex_error' = "SectionNotFoundError"
       ELSE ex_pc' = "deps" /\ ex_error' = ex_error
    /\ UNCHANGED <<section_info, section_name, site_files,
                   css_files, js_files, section_files, extracted, bundles, calls>>
    /\ UNCHANGED notExtractVars

\* css_files, js_files = the dependencies of the whole document
ExtractDependencies ==
    /\ ex_pc = "deps"
    /\ css_files' = ExtractCssDependencies(ExtractSoupOf(section_info.html_file),
                                           PathString(SiteFolder), site_files)
    /\ js_files' = ExtractJsDependencies(ExtractSoupOf(section_info.html_file),
                                         PathString(SiteFolder), site_files)
    /\ ex_pc' = "write"
    /\ UNCHANGED <<section_info, section_name, site_files, section_element,
                   section_files, extracted, bundles, calls, ex_error>>
    /\ UNCHANGED notExtractVars

\* the links _generate_css_links and _generate_js_links put in section.html
RECURSIVE GenerateLinks(_, _)
GenerateLinks(folder, files) ==
    IF files = <<>> THEN <<>>
    ELSE << <<folder, "/">> \o Basename(Head(files)) >> \o GenerateLinks(folder, Tail(files))

\* "if os.path.exists(file): shutil.copy2(file, os.path.join(folder,
\* basename))" for each file in turn: a copy replaces the file already at its
\* destination
RECURSIVE CopyFiles(_, _, _, _)
CopyFiles(files, folder, present, disk) ==
    IF files = <<>> THEN present
    ELSE LET dest == OsPathJoin(folder, Basename(Head(files)))
         IN  CopyFiles(Tail(files), folder,
                 IF Exists(Head(files), disk)
                 THEN {f \in present : f.path # dest}
                          \cup {[path |-> dest, content |-> Normalize(Head(files))]}
                 ELSE present,
                 disk)

\* the files under extracted_sections once section.html is written and the
\* CSS and JS files are copied, given the files present before
BundleFiles(present) ==
    LET folder == SectionFolder(section_name)
        html == [path |-> OsPathJoin(folder, <<"section.html">>),
                 content |-> [element |-> <<section_info.html_file, section_element>>,
                              css |-> GenerateLinks("css", css_files),
                              js |-> GenerateLinks("js", js_files)]]
        written == {f \in present : f.path # html.path} \cup {html}
        with_css == CopyFiles(css_files, OsPathJoin(folder, <<"css">>), written,
                              site_files)
    IN  CopyFiles(js_files, OsPathJoin(folder, <<"js">>), with_css, site_files)

\* write section.html, copy the CSS and JS files, return the bundle
WriteBundle ==
    /\ ex_pc = "write"
    /\ LET folder == SectionFolder(section_name)
       IN  /\ section_files' = BundleFiles(section_files)
           /\ extracted' = [section_folder |-> folder,
                            html_file |-> OsPathJoin(folder, <<"section.html">>),
                            css_files |-> css_files,
                            js_files |-> js_files,
                            section_name |-> section_name]
    /\ bundles' = Append(bundles, extracted')
    /\ ex_pc' = "returned"
    /\ UNCHANGED <<section_info, section_name, site_files, section_element,
                   css_files, js_files, ex_error, calls>>
    /\ UNCHANGED notExtractVars

NextExtract ==
    \/ OpenDocument
    \/ FindSection
    \/ ExtractDependencies
    \/ WriteBundle

SpecExtract == ExtractInit /\ [][NextExtract]_vars

\* ---- helpers of the claims about extract_section -----------------------

\* extract_section has looked for the section element
Searched == ex_pc \in {"deps", "write", "returned"} \/ ex_error = "SectionNotFoundError"

TheSoup == ExtractSoupOf(section_info.html_file)

\* what the selector of section_info finds (0: no selector or no element)
BySelector ==
    IF section_info.css_selector # NoSelector
    THEN SelectOne(TheSoup, section_info.css_selector) ELSE 0

\* the first step of a resolution order that finds an element, 0 if none
FirstResolving(steps) ==
    IF \A k \in 1..Len(steps) : steps[k] = 0 THEN 0
    ELSE steps[CHOOSE k \in 1..Len(steps) :
                   steps[k] # 0 /\ \A j \in 1..(k - 1) : steps[j] = 0]

\* body, then main, then a div of class container
FallbackSteps ==
    << Find(TheSoup, "body"), Find(TheSoup, "main"),
       FindTagWithClass(TheSoup, "div", "container") >>

\* ---- C8 ----------------------------------------------------------------

\* C8 as stated: the element is the one found by the first step that
\* resolves among (a) the selector, (b) section_name looked up as a class,
\* (c) section_name looked up as an id, (d) body, main, a generic container.
C8_ResolutionBySectionName ==
    Searched =>
        section_element =
            FirstResolving(<< BySelector,
                              FindByClass(TheSoup, section_name),
                              FindById(TheSoup, section_name) >> \o FallbackSteps)

\* C8 amended: the element is the one found by the first step that resolves
\* among (a) the selector, (b) section_info's class_name, if it has one,
\* looked up as a class, (c) section_info's element_id, if it has one, looked
\* up as an id, (d) body, main, a div of class container.
C8_ResolutionBySectionInfo ==
    Searched =>
        section_element =
            FirstResolving(<< BySelector,
                              IF section_info.class_name # NoName
                              THEN FindByClass(TheSoup, section_info.class_name) ELSE 0,
                              IF section_info.element_id # NoName
                              THEN FindById(TheSoup, section_info.element_id) ELSE 0 >>
                           \o FallbackSteps)

\* the selector does not resolve, the class_name lookup finds an element
\* other than the body the document has, and it is extracted
C8_Witness ==
    /\ ex_pc = "returned"
    /\ section_info.css_selector # NoSelector
    /\ BySelector = 0
    /\ section_info.class_name # NoName
    /\ Find(TheSoup, "body") # 0
    /\ section_element = FindByClass(TheSoup, section_info.class_name)
    /\ section_element # Find(TheSoup, "body")

\* ---- C9 ----------------------------------------------------------------

\* the selector of section_info does not resolve and section_info names no
\* class or id to look up
SelectorAloneFails ==
    /\ Searched
    /\ section_info.css_selector # NoSelector
    /\ BySelector = 0
    /\ section_info.class_name = NoName
    /\ section_info.element_id = NoName

\* C9 as stated: with a selector that does not resolve, the body element is
\* extracted; on a document with no body, extract fails with
\* SectionNotFoundError and returns no bundle.
C9_BodyOrFail ==
    SelectorAloneFails =>
        IF Find(TheSoup, "body") # 0
        THEN section_element = Find(TheSoup, "body")
        ELSE ex_pc = "raised" /\ ex_error = "SectionNotFoundError"

\* C9 amended: with a selector that does not resolve (and no class_name or
\* element_id to look up), the body element is extracted if the document has
\* one, else its first main, else its first div of class container; extract
\* fails with SectionNotFoundError, returning no bundle, exactly when the
\* document has none of the three.
C9_BodyMainContainerOrFail ==
    /\ SelectorAloneFails =>
          /\ section_element = FirstResolving(FallbackSteps)
          /\ (ex_error = "SectionNotFoundError") <=> (FirstResolving(FallbackSteps) = 0)
    /\ ex_error = "SectionNotFoundError" =>
          /\ ex_pc = "raised"
          /\ Find(TheSoup, "body") = 0
          /\ extracted = [section_name |-> ""]
          /\ section_files = {}

\* the main of a document without body extracted after the selector failed
C9_Witness ==
    /\ SelectorAloneFails
    /\ ex_pc = "returned"
    /\ Find(TheSoup, "body") = 0
    /\ section_element = Find(TheSoup, "main")
    /\ extracted.section_name = section_name

\* ---- C10 ---------------------------------------------------------------

\* os.path.dirname(html_file)
DocumentFolder == PathString(SubSeq(section_info.html_file, 1,
                                    Len(section_info.html_file) - 1))

\* the resolution policy of the claim applied to the references at the
\* positions: leading "/" from the site root, leading "http" skipped, any
\* other reference from the folder of the document; kept iff the file exists
RECURSIVE PolicyPaths(_, _)
PolicyPaths(positions, k) ==
    IF k > Len(positions) THEN <<>>
    ELSE LET href == TheSoup[positions[k]].href
             path == IF StartsWithSlash(href)
                     THEN PathString(SiteFolder) \o href
                     ELSE DocumentFolder \o <<"/">> \o href
         IN  (IF href # <<>> /\ ~StartsWithHttp(href) /\ Exists(path, site_files)
              THEN <<Normalize(path)>> ELSE <<>>)
             \o PolicyPaths(positions, k + 1)

NormalizeAll(paths) == [k \in 1..Len(paths) |-> Normalize(paths[k])]

\* C10 as stated: the dependencies kept are those of every stylesheet link
\* and script src of the document, a leading "/" resolved from the site root,
\* a bare relative reference from the folder of the document, a leading
\* "http" skipped, each kept iff the file exists on disk.
C10_ResolutionPolicy ==
    ex_pc \in {"write", "returned"} =>
        /\ NormalizeAll(css_files) = PolicyPaths(StylesheetLinks(TheSoup), 1)
        /\ NormalizeAll(js_files) = PolicyPaths(ScriptsWithSrc(TheSoup), 1)

\* ------------------------------------------------------------------------
\* SpecReextract: extract_section called again and again on one site tree,
\* the section folders being as the calls before left them
\* ------------------------------------------------------------------------

\* the section_info dictionaries of these calls: html_file and css_selector
RequestInfos ==
    {info \in SectionInfos :
        /\ info.css_selector \in {<<".", "hero">>, <<"#", "ghost">>}
        /\ info.class_name = NoName
        /\ info.element_id = NoName}

ReextractInit ==
    /\ section_info \in RequestInfos
    /\ section_name \in SectionNames
    /\ site_files = DiskFiles
    /\ ex_pc = "open"
    /\ section_element = 0
    /\ css_files = <<>>
    /\ js_files = <<>>
    /\ section_files = {}
    /\ extracted = [section_name |-> ""]
    /\ ex_error = ""
    /\ bundles = <<>>
    /\ calls = 1
    /\ SimIdle
    /\ MatchIdle
    /\ AssembleIdle
    /\ AcquireIdle
    /\ StrategyIdle
    /\ GeminiIdle

\* the next request for an extraction, the one before having returned or
\* raised
ExtractAgain ==
    /\ ex_pc \in {"returned", "raised"}
    /\ calls < MaxExtractions
    /\ calls' = calls + 1
    /\ section_info' \in RequestInfos
    /\ section_name' \in SectionNames
    /\ ex_pc' = "open"
    /\ section_element' = 0
    /\ css_files' = <<>>
    /\ js_files' = <<>>
    /\ extracted' = [section_name |-> ""]
    /\ ex_error' = ""
    /\ UNCHANGED <<site_files, section_files, bundles>>
    /\ UNCHANGED notExtractVars

NextReextract ==
    \/ OpenDocument
    \/ FindSection
    \/ ExtractDependencies
    \/ WriteBundle
    \/ ExtractAgain

SpecReextract == ReextractInit /\ [][NextReextract]_vars

\* ------------------------------------------------------------------------
\* SpecEscape: extract_section on a document whose references point outside
\* the site tree, with files present at the places they point to
\* ------------------------------------------------------------------------

\* files outside extracted_sites/example_com: /host/x.css, /host/x.js and
\* extracted_sites/x.css
OutsideFiles ==
    { <<"/", "host", "/", "x.css">>,
      <<"/", "host", "/", "x.js">>,
      PathString(<<"extracted_sites", "x.css">>) }

\* files of the site tree that escape.html refers to
InsideFiles ==
    { PathString(SiteFolder \o <<"local.css">>),
      PathString(SiteFolder \o <<"js", "app.js">>) }

EscapeInfos ==
    [html_file : {d.path : d \in EscapeSite} \cup {<<>>},
     css_selector : {NoSelector, <<".", "hero">>, <<"#", "ghost">>},
     class_name : {NoName},
     element_id : {NoName}]

EscapeInit ==
    /\ section_info \in EscapeInfos
    /\ section_name \in SectionNames
    /\ site_files \in SUBSET (OutsideFiles \cup InsideFiles)
    /\ ex_pc = "open"
    /\ section_element = 0
    /\ css_files = <<>>
    /\ js_files = <<>>
    /\ section_files = {}
    /\ extracted = [section_name |-> ""]
    /\ ex_error = ""
    /\ bundles = <<>>
    /\ calls = 1
    /\ SimIdle
    /\ MatchIdle
    /\ AssembleIdle
    /\ AcquireIdle
    /\ StrategyIdle
    /\ GeminiIdle

NextEscape ==
    \/ OpenDocument
    \/ FindSection
    \/ ExtractDependencies
    \/ WriteBundle

SpecEscape == EscapeInit /\ [][NextEscape]_vars

\* ---- C11 ---------------------------------------------------------------

\* the path names a file or folder under the folder
Under(path, folder) ==
    LET p == Normalize(path).names
        d == Normalize(folder).names
    IN  Len(p) > Len(d) /\ SubSeq(p, 1, Len(d)) = d

\* the path strings of the files under extracted_sections
SectionPaths == {f.path : f \in section_files}

\* the entries of the list are files present under the folder
ListedUnder(files, folder) ==
    \A k \in 1..Len(files) :
        Under(files[k], folder) /\ Exists(files[k], SectionPaths)

\* the links of section.html name files present under the folder
LinksPresent(links, folder) ==
    \A k \in 1..Len(links) : Exists(OsPathJoin(folder, links[k]), SectionPaths)

\* C11 as stated: the CSS and JS file lists of every bundle returned name
\* files that exist under the bundle's section folder, and every css/<name>
\* and js/<name> link of its section.html names a file present in that
\* folder.
C11_BundleListsUnderFolder ==
    ex_pc = "returned" =>
        LET html == CHOOSE f \in section_files : f.path = extracted.html_file
        IN  /\ ListedUnder(extracted.css_files, extracted.section_folder)
            /\ ListedUnder(extracted.js_files, extracted.section_folder)
            /\ LinksPresent(html.content.css, extracted.section_folder)
            /\ LinksPresent(html.content.js, extracted.section_folder)

\* ---- C12 ---------------------------------------------------------------

\* C12 as stated: when a second extraction of the same section name has
\* returned, the files of the section folder are exactly those the second
\* extraction wrote, nothing of the first being left.
C12_SecondExtractionReplaces ==
    (/\ ex_pc = "returned"
     /\ Len(bundles) = 2
     /\ bundles[1].section_name = bundles[2].section_name) =>
        {f \in section_files : Under(f.path, extracted.section_folder)}
            = BundleFiles({})

\* ---- C19 ---------------------------------------------------------------

\* C19 as stated, for extract_section: no two requests write their bundle
\* into the same folder.
C19_DistinctOutputFolders ==
    \A i, j \in 1..Len(bundles) :
        i # j => bundles[i].section_folder # bundles[j].section_folder

\* ---- C29 ---------------------------------------------------------------

\* the path names a file inside the site tree root
InsideSiteRoot(path) ==
    /\ ~Normalize(path).abs
    /\ Under(path, PathString(SiteFolder))

\* the files copied into the css and js folders of the bundles, by the file
\* they are a copy of
CopiedSources ==
    {f.content : f \in {g \in section_files : Basename(g.path) # <<"section.html">>}}

\* C29 as stated: every CSS and JS dependency path kept by extract_section,
\* and every file copied into a bundle, lies inside the site tree root
\* extracted_sites/example_com, whatever the href and src values are.
C29_DependenciesInsideSiteRoot ==
    /\ \A k \in 1..Len(css_files) : InsideSiteRoot(css_files[k])
    /\ \A k \in 1..Len(js_files) : InsideSiteRoot(js_files[k])
    /\ \A source \in CopiedSources :
           ~source.abs /\ Under(PathString(source.names), PathString(SiteFolder))

\* ------------------------------------------------------------------------
\* CodeAssembler.  Section names, file names and markup are sequences of
\* string tokens ("_" and the extension of a file name are tokens of their
\* own); the content of a file is the sequence of its tokens, a page the
\* sequence of the tokens of its lines.
\* ------------------------------------------------------------------------

\* file.endswith(suffix)
EndsWith(file, suffix) == file # <<>> /\ file[Len(file)] = suffix

\* the suffix of file.lower()
LowerSuffix(file) ==
    IF file = <<>> THEN ""
    ELSE IF file[Len(file)] = ".PNG" THEN ".png" ELSE file[Len(file)]

\* file.lower().endswith(('.png', '.jpg', '.jpeg', '.gif', '.svg', '.ico'))
IsImage(file) == LowerSuffix(file) \in {".png", ".jpg", ".jpeg", ".gif", ".svg", ".ico"}

\* a file of a section folder
File(name, content) == [name |-> name, content |-> content]

HeroFolder == <<"extracted_sections", "/", "hero">>

HeroMainFolder == <<"extracted_sections", "/", "hero", "_", "main">>

PlainFolder == <<"extracted_sections", "/", "plain">>

GoneFolder == <<"extracted_sections", "/", "gone">>

\* the section folders on disk, each with its HTML files, the files of its
\* css and js folders and its other files, as os.listdir and os.walk give
\* them: hero holds a whole document, hero_main a fragment without body,
\* plain no section.html but another page; there is no folder for gone
SectionDisk ==
    { [folder |-> HeroFolder,
       html |-> << File(<<"section", ".html">>,
                        <<"<html>", "<body>", "<h1>Hero</h1>", "</body>", "</html>">>) >>,
       css |-> << File(<<"main", "_", "style", ".css">>, <<"h1 {}">>),
                  File(<<"notes", ".txt">>, <<"todo">>) >>,
       js |-> << File(<<"app", ".js">>, <<"init()">>) >>,
       other |-> << File(<<"Logo", ".PNG">>, <<"hero logo">>) >>],
      [folder |-> HeroMainFolder,
       html |-> << File(<<"section", ".html">>, <<"<div>Main</div>">>) >>,
       css |-> << File(<<"style", ".css">>, <<"div {}">>) >>,
       js |-> <<>>,
       other |-> << File(<<"Logo", ".PNG">>, <<"main logo">>) >>],
      [folder |-> PlainFolder,
       html |-> << File(<<"notes", ".txt">>, <<"todo">>),
                   File(<<"page", ".html">>, <<"<p>Plain</p>">>) >>,
       css |-> <<>>,
       js |-> << File(<<"app", ".js">>, <<"plain()">>) >>,
       other |-> <<>>] }

\* os.path.exists(section_folder)
FolderExists(folder) == \E d \in SectionDisk : d.folder = folder

\* the files of the folder: html those at its top, css and js those of
\* its css and js folders (none when the folder is not there)
FolderOf(folder) ==
    IF FolderExists(folder)
    THEN CHOOSE d \in SectionDisk : d.folder = folder
    ELSE [folder |-> folder, html |-> <<>>, css |-> <<>>, js |-> <<>>, other |-> <<>>]

\* the dictionaries given as sections
HeroBundle == [section_name |-> <<"hero">>, section_folder |-> HeroFolder]

HeroMainBundle == [section_name |-> <<"hero", "_", "main">>,
                   section_folder |-> HeroMainFolder]

PlainBundle == [section_name |-> <<"plain">>, section_folder |-> PlainFolder]

GoneBundle == [section_name |-> <<"gone">>, section_folder |-> GoneFolder]

SectionDicts == {HeroBundle, HeroMainBundle, PlainBundle, GoneBundle}

RECURSIVE SectionLists(_)
SectionLists(n) ==
    IF n = 0 THEN {<<>>}
    ELSE SectionLists(n - 1)
             \cup {Append(l, b) : l \in {m \in SectionLists(n - 1) : Len(m) = n - 1},
                                  b \in SectionDicts}

About == <<"a", "b", "o", "u", "t">>

\* the site_structure dictionaries: title, section_order and pages, each
\* empty when the key is absent
SiteStructures ==
    [title : {<<>>, <<"Test Site">>},
     section_order : {<<>>,
                      << <<"hero", "_", "main">>, <<"hero">> >>,
                      << <<"ghost">>, <<"hero">> >>,
                      << <<"gone">>, <<"plain">>, <<"plain">> >>},
     pages : {<<>>,
              << [name |-> About, title |-> <<>>,
                  sections |-> << <<"hero", "_", "main">>, <<"ghost">>, <<"hero">> >>] >>}]

\* the first position of the file of that name among the files, or 0
RECURSIVE FileNamed(_, _, _)
FileNamed(files, name, k) ==
    IF k > Len(files) THEN 0
    ELSE IF files[k].name = name THEN k
    ELSE FileNamed(files, name, k + 1)

\* the first position of the token from position k on, or 0
RECURSIVE IndexOf(_, _, _)
IndexOf(tokens, token, k) ==
    IF k > Len(tokens) THEN 0
    ELSE IF tokens[k] = token THEN k
    ELSE IndexOf(tokens, token, k + 1)

\* str(soup.find('body')) of the parsed content: the body element with its
\* tags, or nothing when the content has no body
StrBody(content) ==
    LET i == IndexOf(content, "<body>", 1)
        j == IF i = 0 THEN 0 ELSE IndexOf(content, "</body>", i)
    IN  IF i = 0 THEN <<>>
        ELSE IF j = 0 THEN SubSeq(content, i, Len(content)) \o <<"</body>">>
        ELSE SubSeq(content, i, j)

\* the first file of the listing whose name ends with .html, or 0
RECURSIVE FirstHtml(_, _)
FirstHtml(files, k) ==
    IF k > Len(files) THEN 0
    ELSE IF EndsWith(files[k].name, ".html") THEN k
    ELSE FirstHtml(files, k + 1)

\* _extract_section_html: the body of section.html, its whole content when
\* it has no body, else the first HTML file of the folder, else nothing
ExtractSectionHtml(section) ==
    LET files == FolderOf(section.section_folder).html
        k == FileNamed(files, <<"section", ".html">>, 1)
        h == FirstHtml(files, 1)
    IN  IF section.section_folder = <<>> THEN <<>>
        ELSE IF k # 0
             THEN IF StrBody(files[k].content) # <<>>
                  THEN StrBody(files[k].content)
                  ELSE files[k].content
        ELSE IF h # 0 THEN files[h].content
        ELSE <<>>

\* the first position of the section of that name, or 0
RECURSIVE FirstNamed(_, _, _)
FirstNamed(all_sections, name, k) ==
    IF k > Len(all_sections) THEN 0
    ELSE IF all_sections[k].section_name = name THEN k
    ELSE FirstNamed(all_sections, name, k + 1)

\* the sections of the names in turn, the first of each name, a name
\* without section being passed over
RECURSIVE SectionsNamed(_, _)
SectionsNamed(names, all_sections) ==
    IF names = <<>> THEN <<>>
    ELSE LET k == FirstNamed(all_sections, Head(names), 1)
         IN  (IF k = 0 THEN <<>> ELSE <<all_sections[k]>>)
                 \o SectionsNamed(Tail(names), all_sections)

\* ordered_sections of _create_main_html, every section whatever the plan
OrderedSections_AsSupplied(all_sections, structure) == all_sections

\* ordered_sections of _create_main_html
OrderedSections(all_sections, structure) ==
    IF structure.section_order # <<>>
    THEN SectionsNamed(structure.section_order, all_sections)
    ELSE all_sections

\* the comment that precedes a section on a page
Marker(name) == <<"<!-- Section: ">> \o name \o <<" -->">>

\* sections_html: marker and content of every section that has content
RECURSIVE SectionsHtml(_)
SectionsHtml(ordered) ==
    IF ordered = <<>> THEN <<>>
    ELSE LET section_html == ExtractSectionHtml(Head(ordered))
         IN  (IF section_html # <<>>
              THEN Marker(Head(ordered).section_name) \o section_html
              ELSE <<>>)
                 \o SectionsHtml(Tail(ordered))

\* html_template.format(title, sections_html)
PageTemplate(title, sections_html) ==
    <<"<!DOCTYPE html>", "<html lang='en'>", "<head>", "<title>">>
        \o title
        \o <<"</title>", "<link rel='stylesheet' href='styles.css'>", "</head>",
             "<body>">>
        \o sections_html
        \o <<"<script src='scripts.js'></script>", "</body>", "</html>">>

DefaultTitle == <<"Assembled Site">>

\* site_structure.get('title', 'Assembled Site')
TitleOf(structure) ==
    IF structure.title = <<>> THEN DefaultTitle ELSE structure.title

\* _create_main_html with the title of the template whatever the plan
CreateMainHtml_DefaultTitle(all_sections, structure) ==
    PageTemplate(DefaultTitle,
                 SectionsHtml(OrderedSections(all_sections, structure)))

\* _create_main_html
CreateMainHtml(all_sections, structure) ==
    PageTemplate(TitleOf(structure),
                 SectionsHtml(OrderedSections(all_sections, structure)))

\* the upper-case letter of a lower-case one
UpperChar(c) ==
    IF c \in SetOf(LowerLetters)
    THEN UpperLetters[CHOOSE k \in 1..Len(LowerLetters) : LowerLetters[k] = c]
    ELSE c

IsLetter(c) == c \in SetOf(LowerLetters) \cup SetOf(UpperLetters)

\* str.title(): the first letter of every run of letters in upper case, the
\* others in lower case
RECURSIVE TitleFrom(_, _)
TitleFrom(text, k) ==
    IF k > Len(text) THEN <<>>
    ELSE << IF k = 1 \/ ~IsLetter(text[k - 1])
            THEN UpperChar(text[k]) ELSE LowerChar(text[k]) >>
             \o TitleFrom(text, k + 1)

Title(text) == TitleFrom(text, 1)

\* _create_page_html
CreatePageHtml(page_sections, page_title, all_sections) ==
    PageTemplate(page_title, SectionsHtml(SectionsNamed(page_sections, all_sections)))

\* the pages _create_additional_pages writes under the output folder
RECURSIVE AdditionalPages(_, _, _)
AdditionalPages(pages, all_sections, dir) ==
    IF pages = <<>> THEN {}
    ELSE LET page == Head(pages)
             page_title == IF page.title = <<>> THEN Title(page.name) ELSE page.title
         IN  {File(dir \o <<"/">> \o page.name \o <<".html">>,
                   CreatePageHtml(page.sections, page_title, all_sections))}
                 \cup AdditionalPages(Tail(pages), all_sections, dir)

\* the files to which file.endswith(suffix) applies, in the order listed
RECURSIVE WithSuffix(_, _)
WithSuffix(files, suffix) ==
    IF files = <<>> THEN <<>>
    ELSE (IF EndsWith(Head(files).name, suffix) THEN <<Head(files)>> ELSE <<>>)
             \o WithSuffix(Tail(files), suffix)

\* the images among the files
RECURSIVE Images(_)
Images(files) ==
    IF files = <<>> THEN <<>>
    ELSE (IF IsImage(Head(files).name) THEN <<Head(files)>> ELSE <<>>)
             \o Images(Tail(files))

\* a copy of shutil.copy2: source path, destination path, content
RECURSIVE CopiesOf(_, _, _)
CopiesOf(files, from, to) ==
    IF files = <<>> THEN <<>>
    ELSE << [src |-> from \o Head(files).name,
             dst |-> to \o Head(files).name,
             content |-> Head(files).content] >>
             \o CopiesOf(Tail(files), from, to)

\* the copies _copy_section_assets makes for one section: the .css files of
\* its css folder and the .js files of its js folder under the name
\* <section_name>_<file>, then every image of the folder under its own name
SectionCopies(section, assets_dir) ==
    LET folder == section.section_folder
        d == FolderOf(folder)
        renamed == assets_dir \o <<"/">> \o section.section_name \o <<"_">>
    IN  IF folder = <<>> \/ ~FolderExists(folder) THEN <<>>
        ELSE CopiesOf(WithSuffix(d.css, ".css"), folder \o <<"/", "css", "/">>, renamed)
                 \o CopiesOf(WithSuffix(d.js, ".js"), folder \o <<"/", "js", "/">>, renamed)
                 \o CopiesOf(Images(d.html \o d.other), folder \o <<"/">>,
                             assets_dir \o <<"/">>)
                 \o CopiesOf(Images(d.css), folder \o <<"/", "css", "/">>,
                             assets_dir \o <<"/">>)
                 \o CopiesOf(Images(d.js), folder \o <<"/", "js", "/">>,
                             assets_dir \o <<"/">>)

\* the copies of _copy_section_assets, section after section
RECURSIVE AssetCopies(_, _)
AssetCopies(all_sections, assets_dir) ==
    IF all_sections = <<>> THEN <<>>
    ELSE SectionCopies(Head(all_sections), assets_dir)
             \o AssetCopies(Tail(all_sections), assets_dir)

\* the files once the copies are made in turn: a copy replaces the file
\* already at its destination
RECURSIVE ApplyCopies(_, _)
ApplyCopies(copies, present) ==
    IF copies = <<>> THEN present
    ELSE ApplyCopies(Tail(copies),
                     {f \in present : f.name # Head(copies).dst}
                         \cup {File(Head(copies).dst, Head(copies).content)})

\* the lines appended for the files of one section: comment, content, ""
RECURSIVE SectionLines(_, _)
SectionLines(files, comment) ==
    IF files = <<>> THEN <<>>
    ELSE comment \o Head(files).content \o <<"">>
             \o SectionLines(Tail(files), comment)

\* _combine_css_files: "\n".join(combined_css)
RECURSIVE CombineCssFiles(_)
CombineCssFiles(all_sections) ==
    IF all_sections = <<>> THEN <<>>
    ELSE LET section == Head(all_sections)
         IN  (IF section.section_folder = <<>> THEN <<>>
              ELSE SectionLines(WithSuffix(FolderOf(section.section_folder).css, ".css"),
                                <<"/* Section: ">> \o section.section_name \o <<" */">>))
                 \o CombineCssFiles(Tail(all_sections))

\* _combine_js_files: "\n".join(combined_js)
RECURSIVE CombineJsFiles(_)
CombineJsFiles(all_sections) ==
    IF all_sections = <<>> THEN <<>>
    ELSE LET section == Head(all_sections)
         IN  (IF section.section_folder = <<>> THEN <<>>
              ELSE SectionLines(WithSuffix(FolderOf(section.section_folder).js, ".js"),
                                <<"// Section: ">> \o section.section_name))
                 \o CombineJsFiles(Tail(all_sections))

\* the lines of the README naming the sections
RECURSIVE SectionItems(_)
SectionItems(all_sections) ==
    IF all_sections = <<>> THEN <<>>
    ELSE <<"- ">> \o Head(all_sections).section_name \o SectionItems(Tail(all_sections))

\* the lines of the README naming the pages
RECURSIVE PageItems(_)
PageItems(pages) ==
    IF pages = <<>> THEN <<>>
    ELSE <<"- ">> \o Head(pages).name \o <<".html - ">>
             \o (IF Head(pages).title = <<>> THEN Title(Head(pages).name)
                 ELSE Head(pages).title)
             \o PageItems(Tail(pages))

\* readme_content of _create_readme (the time of day apart)
ReadmeContent(all_sections, structure) ==
    <<"# Assembled Website", "- Title: ">> \o TitleOf(structure)
        \o <<"## Sections Used">> \o SectionItems(all_sections)
        \o <<"## Pages">>
        \o (IF structure.pages # <<>> THEN PageItems(structure.pages)
            ELSE <<"- Single page site">>)

\* the steps at which an I/O error may strike
IoFaults == {"none", "makedirs", "index", "assets", "pages", "css_read", "css_write",
             "js_read", "js_write", "readme"}

\* str(uuid.uuid4())[:8]
SiteIds == {"1a2b3c4d", "9f8e7d6c"}

\* os.path.join(self.output_folder, f"assembled_site_{site_id}")
SiteOutputDir(site_id) == <<"output", "/", "assembled_site_", site_id>>

\* ------------------------------------------------------------------------
\* SpecAssemble: CodeAssembler.assemble_site
\* ------------------------------------------------------------------------

AssembleInit ==
    /\ sections \in SectionLists(MaxSections)
    /\ site_structure \in SiteStructures
    /\ io_fault \in IoFaults
    /\ as_pc = "makedirs"
    /\ site_output_dir = <<>>
    /\ site_out = {}
    /\ copied = <<>>
    /\ failed = {}
    /\ output_path = <<>>
    /\ as_error = ""
    /\ SimIdle
    /\ MatchIdle
    /\ ExtractIdle
    /\ AcquireIdle
    /\ StrategyIdle
    /\ GeminiIdle

\* site_id = str(uuid.uuid4())[:8]; os.makedirs(site_output_dir)
MakeOutputDir ==
    /\ as_pc = "makedirs"
    /\ IF io_fault = "makedirs"
       THEN /\ failed' = failed \cup {"makedirs"}
            /\ as_pc' = "raised"
            /\ as_error' = "OSError"
            /\ site_output_dir' = site_output_dir
       ELSE /\ \E site_id \in SiteIds : site_output_dir' = SiteOutputDir(site_id)
            /\ as_pc' = "index"
            /\ UNCHANGED <<failed, as_error>>
    /\ UNCHANGED <<sections, site_structure, io_fault, site_out, copied, output_path>>
    /\ UNCHANGED notAssembleVars

\* main_html = self._create_main_html(...), written to index.html
WriteIndex ==
    /\ as_pc = "index"
    /\ IF io_fault = "index"
       THEN /\ failed' = failed \cup {"index"}
            /\ as_pc' = "raised"
            /\ as_error' = "OSError"
            /\ site_out' = site_out
       ELSE /\ site_out' = site_out
                   \cup {File(site_output_dir \o <<"/", "index", ".html">>,
                              CreateMainHtml(sections, site_structure))}
            /\ as_pc' = "assets"
            /\ UNCHANGED <<failed, as_error>>
    /\ UNCHANGED <<sections, site_structure, io_fault, site_output_dir, copied,
                   output_path>>
    /\ UNCHANGED notAssembleVars

\* _copy_section_assets: an error is printed and the assembly goes on
CopySectionAssets ==
    /\ as_pc = "assets"
    /\ IF io_fault = "assets"
       THEN /\ failed' = failed \cup {"assets"}
            /\ UNCHANGED <<copied, site_out>>
       ELSE /\ copied' = AssetCopies(sections, site_output_dir \o <<"/", "assets">>)
            /\ site_out' = ApplyCopies(copied', site_out)
            /\ failed' = failed
    /\ as_pc' = "pages"
    /\ UNCHANGED <<sections, site_structure, io_fault, site_output_dir, output_path,
                   as_error>>
    /\ UNCHANGED notAssembleVars

\* if site_structure.get('pages'): _create_additional_pages, where an error
\* is printed and the assembly goes on
CreateAdditionalPages ==
    /\ as_pc = "pages"
    /\ IF site_structure.pages = <<>>
       THEN UNCHANGED <<site_out, failed>>
       ELSE IF io_fault = "pages"
            THEN /\ failed' = failed \cup {"pages"}
                 /\ site_out' = site_out
            ELSE /\ site_out' = site_out
                        \cup AdditionalPages(site_structure.pages, sections,
                                             site_output_dir)
                 /\ failed' = failed
    /\ as_pc' = "css"
    /\ UNCHANGED <<sections, site_structure, io_fault, site_output_dir, copied,
                   output_path, as_error>>
    /\ UNCHANGED notAssembleVars

\* combined_css = self._combine_css_files(...), where an error is printed and
\* nothing is combined; written to styles.css when not empty
WriteStyles ==
    /\ as_pc = "css"
    /\ LET read_fails == io_fault = "css_read" /\ CombineCssFiles(sections) # <<>>
           combined_css == IF read_fails THEN <<>> ELSE CombineCssFiles(sections)
       IN  IF combined_css # <<>> /\ io_fault = "css_write"
           THEN /\ failed' = failed \cup {"css_write"}
                /\ as_pc' = "raised"
                /\ as_error' = "OSError"
                /\ site_out' = site_out
           ELSE /\ failed' = IF read_fails THEN failed \cup {"css_read"} ELSE failed
                /\ site_out' = IF combined_css # <<>>
                               THEN site_out
                                        \cup {File(site_output_dir \o <<"/", "styles", ".css">>,
                                                   combined_css)}
                               ELSE site_out
                /\ as_pc' = "js"
                /\ as_error' = as_error
    /\ UNCHANGED <<sections, site_structure, io_fault, site_output_dir, copied,
                   output_path>>
    /\ UNCHANGED notAssembleVars

\* combined_js = self._combine_js_files(...), where an error is printed and
\* nothing is combined; written to scripts.js when not empty
WriteScripts ==
    /\ as_pc = "js"
    /\ LET read_fails == io_fault = "js_read" /\ CombineJsFiles(sections) # <<>>
           combined_js == IF read_fails THEN <<>> ELSE CombineJsFiles(sections)
       IN  IF combined_js # <<>> /\ io_fault = "js_write"
           THEN /\ failed' = failed \cup {"js_write"}
                /\ as_pc' = "raised"
                /\ as_error' = "OSError"
                /\ site_out' = site_out
           ELSE /\ failed' = IF read_fails THEN failed \cup {"js_read"} ELSE failed
                /\ site_out' = IF combined_js # <<>>
                               THEN site_out
                                        \cup {File(site_output_dir \o <<"/", "scripts", ".js">>,
                                                   combined_js)}
                               ELSE site_out
                /\ as_pc' = "readme"
                /\ as_error' = as_error
    /\ UNCHANGED <<sections, site_structure, io_fault, site_output_dir, copied,
                   output_path>>
    /\ UNCHANGED notAssembleVars

\* _create_readme, where an error is printed; return site_output_dir
WriteReadmeAndReturn ==
    /\ as_pc = "readme"
    /\ IF io_fault = "readme"
       THEN /\ failed' = failed \cup {"readme"}
            /\ site_out' = site_out
       ELSE /\ site_out' = site_out
                   \cup {File(site_output_dir \o <<"/", "README", ".md">>,
                              ReadmeContent(sections, site_structure))}
            /\ failed' = failed
    /\ output_path' = site_output_dir
    /\ as_pc' = "returned"
    /\ UNCHANGED <<sections, site_structure, io_fault, site_output_dir, copied,
                   as_error>>
    /\ UNCHANGED notAssembleVars

NextAssemble ==
    \/ MakeOutputDir
    \/ WriteIndex
    \/ CopySectionAssets
    \/ CreateAdditionalPages
    \/ WriteStyles
    \/ WriteScripts
    \/ WriteReadmeAndReturn

SpecAssemble == AssembleInit /\ [][NextAssemble]_vars

\* ---- helpers of the claims about assemble_site -------------------------

IndexPath == site_output_dir \o <<"/", "index", ".html">>

HasIndex == \E f \in site_out : f.name = IndexPath

\* the content of index.html
IndexHtml == (CHOOSE f \in site_out : f.name = IndexPath).content

\* the names of the section markers of a page, in the order of the page
RECURSIVE MarkersOf(_, _)
MarkersOf(page, k) ==
    IF k > Len(page) THEN <<>>
    ELSE IF page[k] = "<!-- Section: "
         THEN LET j == IndexOf(page, " -->", k)
              IN  <<SubSeq(page, k + 1, j - 1)>> \o MarkersOf(page, j + 1)
    ELSE MarkersOf(page, k + 1)

\* the tokens occur in the page one after the other
Contains(page, tokens) ==
    \E p \in 1..(Len(page) - Len(tokens) + 1) :
        SubSeq(page, p, p + Len(tokens) - 1) = tokens

\* some section has the name
HasBundle(name) == \E k \in 1..Len(sections) : sections[k].section_name = name

\* the section of that name is placed: its first bundle has content
Placed(name) ==
    /\ HasBundle(name)
    /\ ExtractSectionHtml(sections[FirstNamed(sections, name, 1)]) # <<>>

\* the names of the list that are placed, in the order of the list
RECURSIVE PlacedOf(_)
PlacedOf(names) ==
    IF names = <<>> THEN <<>>
    ELSE (IF Placed(Head(names)) THEN <<Head(names)>> ELSE <<>>) \o PlacedOf(Tail(names))

\* the names of the sections supplied that have content, in the order supplied
RECURSIVE SuppliedWithContent(_)
SuppliedWithContent(k) ==
    IF k > Len(sections) THEN <<>>
    ELSE (IF ExtractSectionHtml(sections[k]) # <<>>
          THEN <<sections[k].section_name>> ELSE <<>>)
             \o SuppliedWithContent(k + 1)

\* ---- C13 ---------------------------------------------------------------

\* C13: with a section_order, the markers of index.html are the names of the
\* order list that are placed, in the order of the list: a name without
\* bundle is passed over, a bundle whose name is not in the list has no
\* marker; without section_order the markers follow the order in which the
\* sections were supplied.  Sections [A, B] with section_order [B, A] give
\* the markers B, A.
C13_MarkersFollowSectionOrder ==
    HasIndex =>
        LET markers == MarkersOf(IndexHtml, 1)
            order == site_structure.section_order
        IN  /\ order # <<>> =>
                   /\ markers = PlacedOf(order)
                   /\ \A k \in 1..Len(markers) :
                          markers[k] \in SetOf(order) /\ HasBundle(markers[k])
                   /\ \A k \in 1..Len(order) :
                          ~HasBundle(order[k]) => order[k] \notin SetOf(markers)
            /\ order = <<>> => markers = SuppliedWithContent(1)

\* sections [hero, hero_main] assembled with section_order [hero_main, hero]:
\* the marker of hero comes after the marker of hero_main
C13_Witness ==
    /\ as_pc = "returned"
    /\ sections = <<HeroBundle, HeroMainBundle>>
    /\ site_structure.section_order = << <<"hero", "_", "main">>, <<"hero">> >>
    /\ MarkersOf(IndexHtml, 1) = << <<"hero", "_", "main">>, <<"hero">> >>

\* ---- C14 ---------------------------------------------------------------

\* what is inside the body element of the content, the whole content when it
\* has no body element
InnerOrRaw(content) ==
    LET i == IndexOf(content, "<body>", 1)
        j == IF i = 0 THEN 0 ELSE IndexOf(content, "</body>", i)
    IN  IF i = 0 THEN content ELSE SubSeq(content, i + 1, j - 1)

\* the standalone file of the section: section.html, else the first HTML file
StandaloneFile(section) ==
    LET files == FolderOf(section.section_folder).html
        k == FileNamed(files, <<"section", ".html">>, 1)
    IN  IF k # 0 THEN files[k].content ELSE files[FirstHtml(files, 1)].content

\* marker and claimed content of every section that is placed
RECURSIVE ClaimedSectionsHtml(_)
ClaimedSectionsHtml(ordered) ==
    IF ordered = <<>> THEN <<>>
    ELSE (IF ExtractSectionHtml(Head(ordered)) # <<>>
          THEN Marker(Head(ordered).section_name)
                   \o InnerOrRaw(StandaloneFile(Head(ordered)))
          ELSE <<>>)
             \o ClaimedSectionsHtml(Tail(ordered))

\* C14 as stated: the body of index.html is, for every section placed, the
\* marker Section: <name> followed by what is inside the body element of
\* the section's standalone file, without the body tags, or by the whole file
\* when it has no body element.
C14_InnerBodyOrRawContent ==
    HasIndex =>
        IndexHtml = PageTemplate(TitleOf(site_structure),
                        ClaimedSectionsHtml(OrderedSections(sections, site_structure)))

\* ---- C15 ---------------------------------------------------------------

\* the copy is that of a CSS or JS file
IsStyleOrScript(copy) == EndsWith(copy.src, ".css") \/ EndsWith(copy.src, ".js")

\* C15 as stated: no two CSS/JS files of different sources are copied to the
\* same path of the assets folder.
C15_NoAssetCollision ==
    \A i, j \in 1..Len(copied) :
        (/\ IsStyleOrScript(copied[i])
         /\ IsStyleOrScript(copied[j])
         /\ copied[i].src # copied[j].src) => copied[i].dst # copied[j].dst

\* ---- C16 ---------------------------------------------------------------

\* the .css (.js) files of the css (js) folder of the section
CssOf(section) == WithSuffix(FolderOf(section.section_folder).css, ".css")

JsOf(section) == WithSuffix(FolderOf(section.section_folder).js, ".js")

HasFile(path) == \E f \in site_out : f.name = path

ContentOf(path) == (CHOOSE f \in site_out : f.name = path).content

StylesPath == site_output_dir \o <<"/", "styles", ".css">>

ScriptsPath == site_output_dir \o <<"/", "scripts", ".js">>

\* C16 as stated: once assemble_site has returned, styles.css is there iff
\* some section has a CSS file, and holds the content of every such file
\* after a Section: <name> comment; likewise scripts.js for the JS files.
C16_MergedStylesAndScripts ==
    as_pc = "returned" =>
        /\ HasFile(StylesPath) <=> \E k \in 1..Len(sections) : CssOf(sections[k]) # <<>>
        /\ HasFile(ScriptsPath) <=> \E k \in 1..Len(sections) : JsOf(sections[k]) # <<>>
        /\ \A k \in 1..Len(sections) :
               /\ \A n \in 1..Len(CssOf(sections[k])) :
                      Contains(ContentOf(StylesPath),
                               <<"/* Section: ">> \o sections[k].section_name \o <<" */">>
                                   \o CssOf(sections[k])[n].content)
               /\ \A n \in 1..Len(JsOf(sections[k])) :
                      Contains(ContentOf(ScriptsPath),
                               <<"// Section: ">> \o sections[k].section_name
                                   \o JsOf(sections[k])[n].content)

\* ---- C17 ---------------------------------------------------------------

\* C17 as stated: assemble_site never returns a site directory after one of
\* its steps met an I/O error.
C17_AnyErrorAborts ==
    failed # {} => as_pc # "returned"

\* ---- C18 ---------------------------------------------------------------

\* C18: assemble_site given no section and no pages returns, unless creating
\* the output folder or writing index.html fails, and index.html then holds
\* the configured title and, between <body> and the script tag, no marker and
\* no content.
C18_EmptySiteHasTitledIndex ==
    (/\ sections = <<>>
     /\ site_structure.pages = <<>>
     /\ as_pc \in {"returned", "raised"}) =>
        IF failed \cap {"makedirs", "index"} = {}
        THEN /\ as_pc = "returned"
             /\ output_path = site_output_dir
             /\ HasIndex
             /\ site_structure.title # <<>> =>
                    Contains(IndexHtml,
                             <<"<title>">> \o site_structure.title \o <<"</title>">>)
             /\ MarkersOf(IndexHtml, 1) = <<>>
             /\ Contains(IndexHtml, <<"<body>", "<script src='scripts.js'></script>">>)
        ELSE as_pc = "raised"

\* no section, no pages, the title Test Site: index.html is written
C18_Witness ==
    /\ as_pc = "returned"
    /\ sections = <<>>
    /\ site_structure.pages = <<>>
    /\ site_structure.title = <<"Test Site">>
    /\ HasIndex
    /\ Contains(IndexHtml, <<"<title>", "Test Site", "</title>">>)

\* ---- C30 ---------------------------------------------------------------

\* the pages generated by assemble_site: index.html and the additional pages
GeneratedPages == {f \in site_out : Contains(f.content, <<"<!DOCTYPE html>">>)}

\* C30 as stated: once assemble_site has returned, every generated page that
\* links the stylesheet styles.css finds styles.css in the site directory,
\* and every generated page that loads scripts.js finds scripts.js there.
C30_ReferencedFilesExist ==
    as_pc = "returned" =>
        \A page \in GeneratedPages :
            /\ Contains(page.content, <<"<link rel='stylesheet' href='styles.css'>">>)
                   => HasFile(StylesPath)
            /\ Contains(page.content, <<"<script src='scripts.js'></script>">>)
                   => HasFile(ScriptsPath)

\* ------------------------------------------------------------------------
\* SpecAcquire: WebsiteExtractor.extract_website.  A URL is the sequence of
\* its tokens: scheme, "/", ".", names.
\* ------------------------------------------------------------------------

\* the tokens from position k up to the next "/"
RECURSIVE UpToSlash(_, _)
UpToSlash(tokens, k) ==
    IF k > Len(tokens) \/ tokens[k] = "/" THEN <<>>
    ELSE <<tokens[k]>> \o UpToSlash(tokens, k + 1)

\* urlparse(url).netloc: what follows "//" after the scheme, empty when the
\* URL has no scheme
Netloc(address) ==
    IF Len(address) >= 3 /\ address[1] \in {"http:", "https:"}
           /\ address[2] = "/" /\ address[3] = "/"
    THEN UpToSlash(address, 4)
    ELSE <<>>

\* parsed_url.netloc.replace('.', '_')
Domain(address) == Replace(Netloc(address), ".", "_")

\* os.path.join(self.extracted_sites_folder, domain)
SiteFolderOf(address) == OsPathJoin(<<"extracted_sites">>, Domain(address))

\* the path is that of a file under the folder
InFolder(path, folder) ==
    LET prefix == IF folder[Len(folder)] = "/" THEN folder ELSE folder \o <<"/">>
    IN  Len(path) > Len(prefix) /\ SubSeq(path, 1, Len(prefix)) = prefix

\* the URLs of the runs
Urls ==
    { <<"https:", "/", "/", "example", ".", "com">>,
      <<"https:", "/", "/", "example", ".", "com", "/", "blog">>,
      <<"http:", "/", "/", "shop", ".", "example", ".", "com", "/">>,
      <<"example", ".", "com">> }

\* the files that may be under extracted_sites before the call
EarlierFiles ==
    { <<"extracted_sites", "/", "example", "_", "com", "/", "old.html">>,
      <<"extracted_sites", "/", "other", "_", "org", "/", "index.html">> }

\* how wget ends: return code 0, or not 0 with one of the messages of
\* stderr, or wget cannot be run
WgetOutcomes == {"ok", "403 Forbidden", "404 Not Found", "Connection refused",
                 "other", "not installed"}

\* how requests.get and the writing of index.html end
RequestsOutcomes == {"ok", "HTTP 403", "HTTP 404", "HTTP 500", "network error",
                     "write error"}

\* what wget --mirror --directory-prefix site_folder, run in site_folder,
\* has downloaded: the page of the host, under the prefix
Mirrored(address) ==
    LET site_folder == SiteFolderOf(address)
    IN  {OsPathJoin(OsPathJoin(site_folder, site_folder),
                    Netloc(address) \o <<"/", "index.html">>)}

AcquireInit ==
    /\ url \in Urls
    /\ sites_disk \in SUBSET EarlierFiles
    /\ acq_pc = "prepare"
    /\ attempts = <<>>
    /\ acquired = <<>>
    /\ acq_error = ""
    /\ SimIdle
    /\ MatchIdle
    /\ ExtractIdle
    /\ AssembleIdle
    /\ StrategyIdle
    /\ GeminiIdle

\* site_folder of the domain: shutil.rmtree when it exists, os.makedirs
PrepareSiteFolder ==
    /\ acq_pc = "prepare"
    /\ sites_disk' = {f \in sites_disk : ~InFolder(f, SiteFolderOf(url))}
    /\ acq_pc' = "wget"
    /\ UNCHANGED <<url, attempts, acquired, acq_error>>
    /\ UNCHANGED notAcquireVars

\* _extract_with_wget where a failure is raised to the caller
ExtractWithWget_NoFallback ==
    /\ acq_pc = "wget"
    /\ \E outcome \in WgetOutcomes, partial \in BOOLEAN :
        /\ attempts' = Append(attempts, [tool |-> "wget", outcome |-> outcome])
        /\ IF outcome = "ok"
           THEN /\ sites_disk' = sites_disk \cup Mirrored(url)
                /\ acquired' = SiteFolderOf(url)
                /\ acq_pc' = "returned"
                /\ acq_error' = acq_error
           ELSE /\ sites_disk' = IF partial /\ outcome # "not installed"
                                 THEN sites_disk \cup Mirrored(url)
                                 ELSE sites_disk
                /\ acquired' = acquired
                /\ acq_pc' = "raised"
                /\ acq_error' = outcome
    /\ UNCHANGED url
    /\ UNCHANGED notAcquireVars

\* try: return self._extract_with_wget(url, site_folder); except Exception:
\* go on with the fallback
ExtractWithWget ==
    /\ acq_pc = "wget"
    /\ \E outcome \in WgetOutcomes, partial \in BOOLEAN :
        /\ attempts' = Append(attempts, [tool |-> "wget", outcome |-> outcome])
        /\ IF outcome = "ok"
           THEN /\ sites_disk' = sites_disk \cup Mirrored(url)
                /\ acquired' = SiteFolderOf(url)
                /\ acq_pc' = "returned"
                /\ acq_error' = acq_error
           ELSE /\ sites_disk' = IF partial /\ outcome # "not installed"
                                 THEN sites_disk \cup Mirrored(url)
                                 ELSE sites_disk
                /\ acquired' = acquired
                /\ acq_pc' = "requests"
                /\ acq_error' = acq_error
    /\ UNCHANGED url
    /\ UNCHANGED notAcquireVars

\* return self._extract_with_requests(url, site_folder): index.html written
\* in site_folder, or the exception raised to the caller
ExtractWithRequests ==
    /\ acq_pc = "requests"
    /\ \E outcome \in RequestsOutcomes :
        /\ attempts' = Append(attempts, [tool |-> "requests", outcome |-> outcome])
        /\ IF outcome = "ok"
           THEN /\ sites_disk' = sites_disk
                       \cup {OsPathJoin(SiteFolderOf(url), <<"index.html">>)}
                /\ acquired' = SiteFolderOf(url)
                /\ acq_pc' = "returned"
                /\ acq_error' = acq_error
           ELSE /\ acq_pc' = "raised"
                /\ acq_error' = outcome
                /\ UNCHANGED <<sites_disk, acquired>>
    /\ UNCHANGED url
    /\ UNCHANGED notAcquireVars

NextAcquire ==
    \/ PrepareSiteFolder
    \/ ExtractWithWget
    \/ ExtractWithRequests

SpecAcquire == AcquireInit /\ [][NextAcquire]_vars

\* ---- C20 ---------------------------------------------------------------

StrategyElements ==
    { El("div", "", <<>>, Placeholder \o SP \o <<"a">> \o SP \o <<"b">>, 0),
      El("section", "main", <<"content">>, Placeholder \o SP \o <<"a">>, 0),
      El("div", "", <<"container", "wide">>, Placeholder \o SP \o <<"c">>, 0),
      El("p", "content", <<>>, Placeholder, 0),
      El("article", "", <<"main-content">>,
         Placeholder \o SP \o <<"a">> \o SP \o <<"b">> \o SP \o <<"c">>, 0),
      El("main", "", <<>>, Welcome, 0) }

\* the parents element k of a document may have: none, the element before
\* it, or one of that element's ancestors
RECURSIVE Ancestors(_, _)
Ancestors(soup, k) ==
    IF k = 0 \/ soup[k].parent = 0 THEN {}
    ELSE {soup[k].parent} \cup Ancestors(soup, soup[k].parent)

\* the documents of at most n elements
RECURSIVE DocsUpTo(_)
DocsUpTo(n) ==
    IF n = 0 THEN {<<>>}
    ELSE DocsUpTo(n - 1) \cup
         { Append(d, [e EXCEPT !.parent = p]) :
               <<d, e, p>> \in
                   { t \in {d \in DocsUpTo(n - 1) : Len(d) = n - 1}
                               \X StrategyElements \X (0..(n - 1)) :
                       t[3] \in {0, n - 1} \cup Ancestors(t[1], n - 1) } }

StrategyNames == {"visual_elements", "structure", "generate_css_selector"}

\* no strategy has returned yet
NotReturned == Result(<<>>, Zero, "pending", <<>>)

\* the html_file argument of the strategies
StrategyFile == SiteFolder \o <<"index.html">>

StrategyInit ==
    /\ doc \in DocsUpTo(MaxElements)
    /\ strategy \in StrategyNames
    /\ position \in 0..Len(doc)
    /\ (position # 0) <=> (strategy = "generate_css_selector")
    /\ returned = NotReturned
    /\ SimIdle
    /\ MatchIdle
    /\ ExtractIdle
    /\ AssembleIdle
    /\ AcquireIdle
    /\ GeminiIdle

\* self._analyze_by_visual_elements(soup, screenshot, html_file)
CallAnalyzeByVisualElements ==
    /\ strategy = "visual_elements"
    /\ returned = NotReturned
    /\ returned' = AnalyzeByVisualElements(doc, [loads |-> TRUE, depicts |-> Welcome],
                                           StrategyFile)
    /\ UNCHANGED <<doc, strategy, position>>
    /\ UNCHANGED notStrategyVars

\* self._analyze_by_structure(soup, screenshot, html_file)
CallAnalyzeByStructure ==
    /\ strategy = "structure"
    /\ returned = NotReturned
    /\ returned' = AnalyzeByStructure(doc, [loads |-> TRUE, depicts |-> Welcome],
                                      StrategyFile)
    /\ UNCHANGED <<doc, strategy, position>>
    /\ UNCHANGED notStrategyVars

\* self._generate_css_selector(element): the selector returned is held in
\* the css_selector field
CallGenerateCssSelector ==
    /\ strategy = "generate_css_selector"
    /\ returned = NotReturned
    /\ returned' = Result(<<>>, Zero, "css_selector", GenerateCssSelector(doc[position]))
    /\ UNCHANGED <<doc, strategy, position>>
    /\ UNCHANGED notStrategyVars

NextStrategy ==
    \/ CallAnalyzeByVisualElements
    \/ CallAnalyzeByStructure
    \/ CallGenerateCssSelector

SpecStrategy == StrategyInit /\ [][NextStrategy]_vars

\* ---- C24 ---------------------------------------------------------------

\* the similarity of element k's text to the screenshot signature
SignatureSimilarity(k) ==
    CalculateTextSimilarity(Placeholder, ElementGetText(doc, k))

\* the containers of the document whose text is longer than 10 characters
\* and whose similarity exceeds 0.3
QualifyingContainers ==
    {k \in 1..Len(doc) :
        /\ doc[k].tag \in {"div", "section", "article", "main"}
        /\ Len(ElementGetText(doc, k)) > 10
        /\ FracGt(SignatureSimilarity(k), <<3, 10>>)}

\* C24: the visual-element strategy returns None when no div, section,
\* article or main element with more than 10 characters of text has a
\* similarity above 0.3; otherwise it returns the selector of the container
\* of highest similarity, the first in document order among equals, with
\* that similarity as confidence.
C24_VisualBestContainer ==
    (strategy = "visual_elements" /\ returned # NotReturned) =>
        LET qualifying == QualifyingContainers
        IN  IF qualifying = {} THEN returned = None
            ELSE /\ returned.method = "visual_elements"
                 /\ returned.html_file = StrategyFile
                 /\ FracGt(returned.confidence, <<3, 10>>)
                 /\ \E b \in qualifying :
                        /\ returned.confidence = SignatureSimilarity(b)
                        /\ returned.css_selector = GenerateCssSelector(doc[b])
                        /\ \A j \in qualifying :
                               LET similarity_j == SignatureSimilarity(j)
                               IN  /\ FracGe(returned.confidence, similarity_j)
                                   /\ similarity_j = returned.confidence => b <= j

\* two containers of equal, highest similarity and different selectors: the
\* first is returned
C24_Witness ==
    /\ strategy = "visual_elements"
    /\ returned # NotReturned
    /\ Cardinality(QualifyingContainers) = 2
    /\ \A j, k \in QualifyingContainers : SignatureSimilarity(j) = SignatureSimilarity(k)
    /\ \E j, k \in QualifyingContainers :
           /\ j < k
           /\ GenerateCssSelector(doc[j]) # GenerateCssSelector(doc[k])
           /\ returned.css_selector = GenerateCssSelector(doc[j])

\* ---- C25 ---------------------------------------------------------------

\* the k-th of the eight structural selectors matches an element
StructuralMatch(k) ==
    \E n \in 1..Len(doc) :
        CASE k = 1 -> doc[n].tag = "main"
          [] k = 2 -> doc[n].tag = "section"
          [] k = 3 -> doc[n].tag = "article"
          [] k = 4 -> "container" \in SetOf(doc[n].classes)
          [] k = 5 -> "content" \in SetOf(doc[n].classes)
          [] k = 6 -> "main-content" \in SetOf(doc[n].classes)
          [] k = 7 -> doc[n].id = "content"
          [] k = 8 -> doc[n].id = "main"

\* C25: the structural strategy returns the first of main, section, article,
\* .container, .content, .main-content, #content, #main that matches an
\* element, with confidence 0.5, and None iff none of the eight matches.
C25_StructureFirstSelector ==
    (strategy = "structure" /\ returned # NotReturned) =>
        IF \E k \in 1..8 : StructuralMatch(k)
        THEN LET first == CHOOSE k \in 1..8 :
                              StructuralMatch(k) /\ \A j \in 1..(k - 1) : ~StructuralMatch(j)
             IN  returned = Result(StrategyFile, <<1, 2>>, "structure",
                                   SectionSelectors[first])
        ELSE returned = None

\* .container and #content both match, no selector before .container does:
\* .container is returned
C25_Witness ==
    /\ strategy = "structure"
    /\ StructuralMatch(4)
    /\ StructuralMatch(7)
    /\ \A k \in 1..3 : ~StructuralMatch(k)
    /\ returned = Result(StrategyFile, <<1, 2>>, "structure", <<".", "container">>)

\* ---- C26 ---------------------------------------------------------------

\* each class prefixed with "." and concatenated
RECURSIVE ClassChain(_)
ClassChain(classes) ==
    IF classes = <<>> THEN <<>>
    ELSE <<".", Head(classes)>> \o ClassChain(Tail(classes))

\* C26: the selector derived for an element is #id when it has an id, else
\* its classes each prefixed with "." and concatenated when it has classes,
\* else its tag name.
C26_SelectorDerivation ==
    (strategy = "generate_css_selector" /\ returned # NotReturned) =>
        returned.css_selector =
            IF doc[position].id # "" THEN <<"#", doc[position].id>>
            ELSE IF doc[position].classes # <<>> THEN ClassChain(doc[position].classes)
            ELSE <<doc[position].tag>>

\* an element with an id and a class: #id is returned
C26_Witness ==
    /\ strategy = "generate_css_selector"
    /\ position # 0
    /\ doc[position].id = "main"
    /\ doc[position].classes = <<"content">>
    /\ returned.css_selector = <<"#", "main">>

\* ------------------------------------------------------------------------
\* GeminiAnalyzer.  A response text is a sequence of tokens: " ", the marks
\* ".", "#", "{", "}", the quote, ":", ",", "[", "]", "*=", and the maximal
\* runs of the characters [a-zA-Z0-9_-] (words, names, digit strings).
\* ------------------------------------------------------------------------

Quote == "\""

Marks == {".", "#"}

Punctuation == {" ", "{", "}", Quote, ":", ",", "[", "]", "*=", "!"} \cup Marks

\* the token is a run of the characters [a-zA-Z0-9_-]
IsIdentToken(t) == t \notin Punctuation

\* the digit strings of the runs: their value and ten to the power of their
\* length
DigitStrings ==
    [s \in {"0", "1", "5", "9", "25", "95"} |->
        CASE s = "0" -> [value |-> 0, scale |-> 10]
          [] s = "1" -> [value |-> 1, scale |-> 10]
          [] s = "5" -> [value |-> 5, scale |-> 10]
          [] s = "9" -> [value |-> 9, scale |-> 10]
          [] s = "25" -> [value |-> 25, scale |-> 100]
          [] s = "95" -> [value |-> 95, scale |-> 100]]

IsDigits(t) == t \in DOMAIN DigitStrings

\* a - b and max(a, b) on fractions
FracSub(a, b) ==
    LET n == a[1] * b[2] - b[1] * a[2]
        d == a[2] * b[2]
    IN  IF n >= 0 THEN Frac(n, d) ELSE <<0 - Frac(0 - n, d)[1], Frac(0 - n, d)[2]>>

FracMax(a, b) == IF FracGt(b, a) THEN b ELSE a

\* the first position from k on that holds no space
RECURSIVE SkipWs(_, _)
SkipWs(tokens, k) ==
    IF k <= Len(tokens) /\ tokens[k] = " " THEN SkipWs(tokens, k + 1) ELSE k

\* what json.loads makes of a value starting at position k: a string, a
\* number, or an error; next is the position after the value
JsonValue(tokens, k) ==
    IF k > Len(tokens) THEN [kind |-> "error", str |-> <<>>, num |-> Zero, next |-> k]
    ELSE IF tokens[k] = Quote
    THEN LET close == IndexOf(tokens, Quote, k + 1)
         IN  IF close = 0
             THEN [kind |-> "error", str |-> <<>>, num |-> Zero, next |-> k]
             ELSE [kind |-> "string", str |-> SubSeq(tokens, k + 1, close - 1),
                   num |-> Zero, next |-> close + 1]
    ELSE IF /\ k + 2 <= Len(tokens)
            /\ IsDigits(tokens[k]) /\ tokens[k + 1] = "." /\ IsDigits(tokens[k + 2])
    THEN LET whole == DigitStrings[tokens[k]].value
             part == DigitStrings[tokens[k + 2]]
         IN  [kind |-> "number", str |-> <<>>,
              num |-> Frac(whole * part.scale + part.value, part.scale),
              next |-> k + 3]
    ELSE IF IsDigits(tokens[k])
    THEN [kind |-> "number", str |-> <<>>,
          num |-> Frac(DigitStrings[tokens[k]].value, 1), next |-> k + 1]
    ELSE [kind |-> "error", str |-> <<>>, num |-> Zero, next |-> k]

\* the dictionary json.loads gives, as far as the analysis reads it: whether
\* it has the keys css_selector and confidence, and their values.  ok is
\* FALSE when json.loads raises.  In the answers of the runs css_selector is
\* a string and confidence a number.
EmptyDict ==
    [ok |-> TRUE, has_selector |-> FALSE, css_selector |-> <<>>,
     has_confidence |-> FALSE, confidence |-> Zero]

JsonError == [EmptyDict EXCEPT !.ok = FALSE]

\* the members of an object from position k on: "key": value, ... }
RECURSIVE JsonMembers(_, _, _)
JsonMembers(tokens, k, acc) ==
    LET key == JsonValue(tokens, SkipWs(tokens, k))
        colon == SkipWs(tokens, key.next)
        value == JsonValue(tokens, SkipWs(tokens, colon + 1))
        after == SkipWs(tokens, value.next)
        dict == IF key.str = <<"css_selector">> /\ value.kind = "string"
                THEN [acc EXCEPT !.has_selector = TRUE, !.css_selector = value.str]
                ELSE IF key.str = <<"confidence">> /\ value.kind = "number"
                THEN [acc EXCEPT !.has_confidence = TRUE, !.confidence = value.num]
                ELSE acc
    IN  IF key.kind # "string" THEN JsonError
        ELSE IF colon > Len(tokens) \/ tokens[colon] # ":" THEN JsonError
        ELSE IF value.kind = "error" THEN JsonError
        ELSE IF after > Len(tokens) THEN JsonError
        ELSE IF tokens[after] = "," THEN JsonMembers(tokens, after + 1, dict)
        ELSE IF tokens[after] = "}" /\ after = Len(tokens) THEN dict
        ELSE JsonError

\* json.loads(text) of a text that starts with "{"
JsonLoads(tokens) ==
    LET k == SkipWs(tokens, 2)
    IN  IF k = Len(tokens) /\ tokens[k] = "}" THEN EmptyDict
        ELSE JsonMembers(tokens, 2, EmptyDict)

\* the last position of the token, or 0
RECURSIVE LastIndexOf(_, _, _)
LastIndexOf(tokens, token, k) ==
    IF k = 0 THEN 0
    ELSE IF tokens[k] = token THEN k
    ELSE LastIndexOf(tokens, token, k - 1)

\* re.search(r'\{.*\}', response_text, re.DOTALL).group(): from the first
\* "{" to the last "}" after it; nothing when there is no match
SearchBraces(tokens) ==
    LET open == IndexOf(tokens, "{", 1)
        close == LastIndexOf(tokens, "}", Len(tokens))
    IN  IF open # 0 /\ close > open THEN SubSeq(tokens, open, close) ELSE <<>>

\* re.findall(r'[.#][a-zA-Z0-9_-]+', response_text): the matches in order
RECURSIVE FindSelectors(_, _)
FindSelectors(tokens, k) ==
    IF k >= Len(tokens) THEN <<>>
    ELSE IF tokens[k] \in Marks /\ IsIdentToken(tokens[k + 1])
         THEN << <<tokens[k], tokens[k + 1]>> >> \o FindSelectors(tokens, k + 2)
         ELSE FindSelectors(tokens, k + 1)

NoFile == <<>>

\* plausible slip: the last selector of the text is taken
ParseTextResponse_LastMatch(tokens) ==
    LET selectors == FindSelectors(tokens, 1)
    IN  Result(NoFile, <<7, 10>>, "gemini_ai_text",
               IF selectors # <<>> THEN selectors[Len(selectors)] ELSE <<"body">>)

\* _parse_text_response
ParseTextResponse(tokens) ==
    LET selectors == FindSelectors(tokens, 1)
    IN  Result(NoFile, <<7, 10>>, "gemini_ai_text",
               IF selectors # <<>> THEN selectors[1] ELSE <<"body">>)

\* _parse_gemini_response
ParseGeminiResponse(tokens) ==
    LET json_match == SearchBraces(tokens)
        dict == IF json_match # <<>> THEN JsonLoads(json_match) ELSE JsonError
    IN  IF json_match # <<>> /\ dict.ok
        THEN Result(NoFile,
                    IF dict.has_confidence THEN dict.confidence ELSE <<1, 2>>,
                    "gemini_ai",
                    IF dict.has_selector THEN dict.css_selector ELSE <<"body">>)
        ELSE ParseTextResponse(tokens)

\* f'.{section_name}, #{section_name}, [class*="{section_name}"]'
FallbackSelector(name) ==
    <<".", name, ",", " ", "#", name, ",", " ",
      "[", "class", "*=", Quote, name, Quote, "]">>

\* _fallback_analysis
FallbackAnalysis(name) == Result(NoFile, <<3, 10>>, "fallback", FallbackSelector(name))

\* ------------------------------------------------------------------------
\* soup.select_one for the selectors of the analyzer: lists of compound
\* selectors and of [class*="name"]; no combinator occurs in the runs
\* ------------------------------------------------------------------------

\* the parts of a selector list, split at "," and stripped of spaces
RECURSIVE SelectorParts(_, _)
SelectorParts(tokens, part) ==
    IF tokens = <<>> THEN <<part>>
    ELSE IF Head(tokens) = "," THEN <<part>> \o SelectorParts(Tail(tokens), <<>>)
    ELSE IF Head(tokens) = " " THEN SelectorParts(Tail(tokens), part)
    ELSE SelectorParts(Tail(tokens), Append(part, Head(tokens)))

\* a CSS identifier: a name that is not a digit string
IsCssIdent(t) == IsIdentToken(t) /\ ~IsDigits(t)

IsAttributePart(part) ==
    /\ Len(part) = 7
    /\ SubSeq(part, 1, 4) = <<"[", "class", "*=", Quote>>
    /\ SubSeq(part, 6, 7) = <<Quote, "]">>

\* a compound selector: a tag name or none, then ".name" and "#name"
RECURSIVE IsCompoundRest(_)
IsCompoundRest(part) ==
    \/ part = <<>>
    \/ /\ Len(part) >= 2
       /\ part[1] \in Marks
       /\ IsCssIdent(part[2])
       /\ IsCompoundRest(SubSeq(part, 3, Len(part)))

IsCompound(part) ==
    /\ part # <<>>
    /\ IF IsCssIdent(part[1]) THEN IsCompoundRest(Tail(part)) ELSE IsCompoundRest(part)

\* the selector parses: otherwise select_one raises
ValidSelector(selector) ==
    \A k \in 1..Len(SelectorParts(selector, <<>>)) :
        LET part == SelectorParts(selector, <<>>)[k]
        IN  IsAttributePart(part) \/ IsCompound(part)

\* the class names of the runs that hold another as a substring
Substrings == {<<"hero", "hero-banner">>}

\* [class*="name"]: the class attribute holds the name as a substring
ClassAttributeContains(element, name) ==
    \E k \in 1..Len(element.classes) :
        element.classes[k] = name \/ <<name, element.classes[k]>> \in Substrings

MatchesPart(element, part) ==
    IF IsAttributePart(part) THEN ClassAttributeContains(element, part[5])
    ELSE Matches(element, part)

\* soup.select_one(selector): the position of the first element that some
\* part of the list matches, 0 for None, -1 when the selector does not parse
SoupSelectOne(soup, selector) ==
    IF ~ValidSelector(selector) THEN -1
    ELSE First(InDocumentOrder(
             {k \in 1..Len(soup) :
                 \E n \in 1..Len(SelectorParts(selector, <<>>)) :
                     MatchesPart(soup[k], SelectorParts(selector, <<>>)[n])}))

\* ------------------------------------------------------------------------
\* SpecGemini: GeminiAnalyzer.enhance_section_extraction
\* ------------------------------------------------------------------------

\* the documents of the runs
\* body with a div of class hero-banner and a div of class box
BannerSoup ==
    << El("body", "", <<>>, <<>>, 0),
       El("div", "", <<"hero-banner">>, Hero, 1),
       El("div", "", <<"box">>, Welcome, 1) >>

\* body with a section, a div of id hero and an article
SectionSoup ==
    << El("body", "", <<>>, <<>>, 0),
       El("section", "", <<>>, Welcome, 1),
       El("div", "hero", <<>>, Hero, 1),
       El("article", "", <<>>, AboutUs, 1) >>

\* body with a paragraph only
PlainSoup ==
    << El("body", "", <<>>, <<>>, 0),
       El("p", "", <<>>, Welcome, 1) >>

\* a fragment without body
FragmentSoup ==
    << El("p", "", <<>>, Welcome, 0) >>

GeminiSoups == {BannerSoup, SectionSoup, PlainSoup, FragmentSoup}

GeminiNames == {"hero", "ghost"}

\* what the scorer may answer in a structured response: a selector and a
\* confidence, the confidence with the digits it is written in
ScorerAnswers ==
    [css_selector : {<<".", "box">>, <<"#", "hero">>, <<".", "ghost">>},
     number : {<<"0", ".", "95">>, <<"0", ".", "25">>, <<"1", ".", "5">>}]

\* the value of the number as written: 0.95, 0.25, 1.5
NumberValue(number) ==
    CASE number = <<"0", ".", "95">> -> <<19, 20>>
      [] number = <<"0", ".", "25">> -> <<1, 4>>
      [] number = <<"1", ".", "5">> -> <<3, 2>>

\* {"css_selector": "...", "confidence": ...}
JsonText(answer) ==
    <<"{", Quote, "css_selector", Quote, ":", " ", Quote>> \o answer.css_selector
        \o <<Quote, ",", " ", Quote, "confidence", Quote, ":", " ">> \o answer.number
        \o <<"}">>

\* the same inside a sentence
JsonInProse(answer) ==
    <<"Here", " ", "is", " ", "the", " ", "analysis", ":", " ">> \o JsonText(answer)
        \o <<" ", "Done", "!">>

\* responses that are not JSON objects with both keys
\* {"section_type": "hero"}
OtherKeysText == <<"{", Quote, "section_type", Quote, ":", " ", Quote, "hero", Quote, "}">>

\* { css_selector: .box }
BrokenJsonText == <<"{", " ", "css_selector", ":", " ", ".", "box", " ", "}">>

\* The section is .ghost or #hero
TwoSelectorsText ==
    <<"The", " ", "section", " ", "is", " ", ".", "ghost", " ", "or", " ", "#", "hero">>

\* confidence 0.9 for #hero
NumberFirstText == <<"confidence", " ", "0", ".", "9", " ", "for", " ", "#", "hero">>

\* no match found
NoSelectorText == <<"no", " ", "match", " ", "found">>

TextResponses ==
    {OtherKeysText, BrokenJsonText, TwoSelectorsText, NumberFirstText, NoSelectorText}

Responses ==
    {JsonText(a) : a \in ScorerAnswers} \cup {JsonInProse(a) : a \in ScorerAnswers}
        \cup TextResponses

\* the html_file argument
GeminiFile == SiteFolder \o <<"index.html">>

GeminiInit ==
    /\ client \in BOOLEAN
    /\ shot_opens \in BOOLEAN
    /\ html_opens \in BOOLEAN
    /\ gem_soup \in GeminiSoups
    /\ gem_name \in GeminiNames
    /\ call_raises \in BOOLEAN
    /\ response_text \in IF call_raises THEN {<<>>} ELSE Responses
    /\ gem_pc = "read"
    /\ gem_calls = 0
    /\ analysis = None
    /\ enhanced = None
    /\ SimIdle
    /\ MatchIdle
    /\ ExtractIdle
    /\ AssembleIdle
    /\ AcquireIdle
    /\ StrategyIdle

\* the dictionary returned by the except branch of enhance_section_extraction
ErrorFallback == Result(GeminiFile, <<1, 10>>, "error_fallback", <<"body">>)

\* "with open(html_file) as f: html_content = f.read()"; an error is caught
\* by the except branch
ReadHtmlFile ==
    /\ gem_pc = "read"
    /\ IF html_opens
       THEN gem_pc' = "analyze" /\ UNCHANGED enhanced
       ELSE gem_pc' = "returned" /\ enhanced' = ErrorFallback
    /\ UNCHANGED <<client, shot_opens, html_opens, gem_soup, gem_name, call_raises,
                   response_text, gem_calls, analysis>>
    /\ UNCHANGED notGeminiVars

\* plausible slip: an exception of the call is not caught, and reaches the
\* except branch of enhance_section_extraction
AnalyzeScreenshotWithGemini_Propagates ==
    /\ gem_pc = "analyze"
    /\ IF ~client
       THEN /\ analysis' = FallbackAnalysis(gem_name)
            /\ gem_pc' = "resolve"
            /\ UNCHANGED <<gem_calls, enhanced>>
       ELSE IF ~shot_opens
       THEN /\ enhanced' = ErrorFallback
            /\ gem_pc' = "returned"
            /\ UNCHANGED <<gem_calls, analysis>>
       ELSE IF call_raises
       THEN /\ gem_calls' = gem_calls + 1
            /\ enhanced' = ErrorFallback
            /\ gem_pc' = "returned"
            /\ UNCHANGED analysis
       ELSE /\ gem_calls' = gem_calls + 1
            /\ analysis' = ParseGeminiResponse(response_text)
            /\ gem_pc' = "resolve"
            /\ UNCHANGED enhanced
    /\ UNCHANGED <<client, shot_opens, html_opens, gem_soup, gem_name, call_raises,
                   response_text>>
    /\ UNCHANGED notGeminiVars

\* analyze_screenshot_with_gemini: the fallback without client; else the
\* screenshot is opened and generate_content is called, once; any exception
\* gives the fallback
AnalyzeScreenshotWithGemini ==
    /\ gem_pc = "analyze"
    /\ IF ~client
       THEN /\ analysis' = FallbackAnalysis(gem_name)
            /\ UNCHANGED gem_calls
       ELSE IF ~shot_opens
       THEN /\ analysis' = FallbackAnalysis(gem_name)
            /\ UNCHANGED gem_calls
       ELSE IF call_raises
       THEN /\ gem_calls' = gem_calls + 1
            /\ analysis' = FallbackAnalysis(gem_name)
       ELSE /\ gem_calls' = gem_calls + 1
            /\ analysis' = ParseGeminiResponse(response_text)
    /\ gem_pc' = "resolve"
    /\ UNCHANGED <<client, shot_opens, html_opens, gem_soup, gem_name, call_raises,
                   response_text, enhanced>>
    /\ UNCHANGED notGeminiVars

\* the alternative selectors, in the order tried
AlternativeSelectors(name) ==
    << <<".", name>>, <<"#", name>>, <<"[", "class", "*=", Quote, name, Quote, "]">>,
       <<"main">>, <<"section">>, <<"article">> >>

\* the first alternative that resolves, 0 when none does
RECURSIVE FirstAlternative(_, _, _)
FirstAlternative(soup, name, k) ==
    IF k > Len(AlternativeSelectors(name)) THEN 0
    ELSE IF SoupSelectOne(soup, AlternativeSelectors(name)[k]) > 0 THEN k
    ELSE FirstAlternative(soup, name, k + 1)

\* plausible slip: the lowered confidence has no floor
LoweredConfidence_NoFloor(confidence) == FracSub(confidence, <<1, 5>>)

\* max(0.1, analysis['confidence'] - 0.2)
LoweredConfidence(confidence) == FracMax(<<1, 10>>, FracSub(confidence, <<1, 5>>))

\* the rest of enhance_section_extraction: the analysis' selector is
\* resolved, then the alternatives, then body is named, whether the document
\* has one or not; a selector that does not parse gives the dictionary of
\* the except branch
ResolveSelector ==
    /\ gem_pc = "resolve"
    /\ LET found == SoupSelectOne(gem_soup, analysis.css_selector)
           alternative == FirstAlternative(gem_soup, gem_name, 1)
       IN  enhanced' =
               IF found = -1 THEN ErrorFallback
               ELSE IF found > 0
               THEN Result(GeminiFile, analysis.confidence, analysis.method,
                           analysis.css_selector)
               ELSE IF alternative > 0
               THEN Result(GeminiFile, LoweredConfidence(analysis.confidence),
                           analysis.method, AlternativeSelectors(gem_name)[alternative])
               ELSE Result(GeminiFile, <<1, 10>>, analysis.method, <<"body">>)
    /\ gem_pc' = "returned"
    /\ UNCHANGED <<client, shot_opens, html_opens, gem_soup, gem_name, call_raises,
                   response_text, gem_calls, analysis>>
    /\ UNCHANGED notGeminiVars

NextGemini ==
    \/ ReadHtmlFile
    \/ AnalyzeScreenshotWithGemini
    \/ ResolveSelector

SpecGemini == GeminiInit /\ [][NextGemini]_vars

\* the scorer was asked and its call raised
ScorerCallFailed == client /\ shot_opens /\ html_opens /\ call_raises

\* analyze_screenshot_with_gemini has returned
Analyzed == html_opens /\ gem_pc \in {"resolve", "returned"}

\* ---- C21 ---------------------------------------------------------------

\* C21 as stated: the fallback analysis is taken only after three failed
\* calls of the external scorer.
C21_ThreeAttemptsBeforeFallback ==
    (Analyzed /\ ScorerCallFailed /\ analysis.method = "fallback") => gem_calls = 3

\* ---- C22 ---------------------------------------------------------------

\* the confidence lies within [0, 1]
WithinUnitInterval(confidence) ==
    /\ confidence[2] > 0
    /\ FracGe(confidence, Zero)
    /\ FracGe(One, confidence)

\* C22 as stated: the result enhance_section_extraction hands to its caller
\* has a confidence within [0, 1], whether it comes from a structured or an
\* unstructured response of the scorer or from a fallback.
C22_ConfidenceWithinUnitInterval ==
    gem_pc = "returned" => WithinUnitInterval(enhanced.confidence)

\* ---- C23 ---------------------------------------------------------------

\* C23: without client, or when opening the screenshot or the call of the
\* scorer raises, analyze_screenshot_with_gemini returns (it does not
\* raise) the fallback analysis: the selector
\* .name, #name, [class*="name"] made from the section name, confidence 0.3,
\* method fallback.
C23_FallbackAnalysisWhenUnavailable ==
    (html_opens /\ gem_pc \in {"resolve", "returned"}
        /\ (~client \/ ~shot_opens \/ call_raises)) =>
        /\ analysis.method = "fallback"
        /\ analysis.confidence = <<3, 10>>
        /\ analysis.css_selector # <<>>
        /\ analysis.css_selector =
               <<".", gem_name, ",", " ", "#", gem_name, ",", " ",
                 "[", "class", "*=", Quote, gem_name, Quote, "]">>

\* the call of the scorer raised and the fallback analysis was returned
C23_Witness ==
    /\ gem_pc = "resolve"
    /\ ScorerCallFailed
    /\ gem_calls = 1
    /\ gem_name = "hero"
    /\ analysis.method = "fallback"
    /\ analysis.confidence = <<3, 10>>

\* ---- C27 ---------------------------------------------------------------

\* the scorer answered
ScorerAnswered == client /\ shot_opens /\ ~call_raises /\ Analyzed

\* the text holds no "{" followed later by a "}"
NoBraces(tokens) ==
    ~\E i, j \in 1..Len(tokens) : i < j /\ tokens[i] = "{" /\ tokens[j] = "}"

\* position p starts a selector-shaped token: "." or "#" followed by a run
\* of identifier characters
SelectorShapedAt(tokens, p) ==
    p < Len(tokens) /\ tokens[p] \in Marks /\ tokens[p + 1] \notin Punctuation

\* C27: a JSON response, bare or inside a sentence, gives the selector and
\* the confidence written in it, unchanged; a response without JSON object,
\* or whose braces do not hold JSON, gives the first token of the form "." or
\* "#" followed by identifier characters as selector, body when it has none,
\* with confidence 0.7.
C27_ResponseParsing ==
    ScorerAnswered =>
        /\ \A a \in ScorerAnswers :
               response_text \in {JsonText(a), JsonInProse(a)} =>
                   /\ analysis.css_selector = a.css_selector
                   /\ analysis.confidence = NumberValue(a.number)
                   /\ analysis.method = "gemini_ai"
        /\ (NoBraces(response_text) \/ response_text = BrokenJsonText) =>
               /\ analysis.confidence = <<7, 10>>
               /\ analysis.method = "gemini_ai_text"
               /\ IF \E p \in 1..Len(response_text) : SelectorShapedAt(response_text, p)
                  THEN \E p \in 1..Len(response_text) :
                           /\ SelectorShapedAt(response_text, p)
                           /\ \A q \in 1..(p - 1) : ~SelectorShapedAt(response_text, q)
                           /\ analysis.css_selector =
                                  <<response_text[p], response_text[p + 1]>>
                  ELSE analysis.css_selector = <<"body">>

\* a text with two selectors: the first is taken, with confidence 0.7
C27_Witness ==
    /\ ScorerAnswered
    /\ response_text = TwoSelectorsText
    /\ analysis.css_selector = <<".", "ghost">>
    /\ analysis.confidence = <<7, 10>>

\* ---- C28 ---------------------------------------------------------------

\* the selector resolves to an element of the document
Resolves(selector) == html_opens /\ SoupSelectOne(gem_soup, selector) > 0

\* the alternatives that resolve, by their place in the order tried
ResolvingAlternatives ==
    {k \in 1..6 : Resolves(AlternativeSelectors(gem_name)[k])}

\* C28: enhance_section_extraction always returns (the model has no raising
\* outcome: every exception ends in the except branch), and what it returns
\* has a selector that resolves in the document, or is body with confidence
\* 0.1; when the selector of the analysis parses but resolves to nothing and
\* some alternative resolves, the first such alternative is returned with the
\* analysis' confidence minus 0.2, not below 0.1.
C28_EnhanceAlwaysResolves ==
    gem_pc = "returned" =>
        /\ \/ Resolves(enhanced.css_selector)
           \/ (enhanced.css_selector = <<"body">> /\ enhanced.confidence = <<1, 10>>)
        /\ (/\ Analyzed
            /\ SoupSelectOne(gem_soup, analysis.css_selector) = 0
            /\ ResolvingAlternatives # {}) =>
               LET first == CHOOSE k \in ResolvingAlternatives :
                                \A j \in ResolvingAlternatives : k <= j
                   lowered == FracSub(analysis.confidence, <<1, 5>>)
               IN  /\ enhanced.css_selector = AlternativeSelectors(gem_name)[first]
                   /\ enhanced.confidence =
                          IF FracGt(<<1, 10>>, lowered) THEN <<1, 10>> ELSE lowered

\* the scorer's selector .ghost resolves to nothing, the alternative
\* [class*="hero"] does: confidence 0.25 - 0.2 is raised to 0.1
C28_Witness ==
    /\ gem_pc = "returned"
    /\ ScorerAnswered
    /\ analysis.css_selector = <<".", "ghost">>
    /\ analysis.confidence = <<1, 4>>
    /\ enhanced.css_selector = <<"[", "class", "*=", Quote, "hero", Quote, "]">>
    /\ enhanced.confidence = <<1, 10>>

\* ------------------------------------------------------------------------
\* SpecSim: _calculate_text_similarity applied to every pair of short texts
\* ------------------------------------------------------------------------

SimAlphabet == {"a", "A", "b", " "}

RECURSIVE TextsOfLen(_)
TextsOfLen(n) ==
    IF n = 0 THEN {<<>>}
    ELSE {Append(t, c) : t \in TextsOfLen(n - 1), c \in SimAlphabet}

SimTexts == UNION {TextsOfLen(n) : n \in 0..MaxTextLen}

NotComputed == <<-1, 1>>

SimInit ==
    /\ text1 \in SimTexts
    /\ text2 \in SimTexts
    /\ similarity = NotComputed
    /\ MatchIdle
    /\ ExtractIdle
    /\ AssembleIdle
    /\ AcquireIdle
    /\ StrategyIdle
    /\ GeminiIdle

CallCalculateTextSimilarity ==
    /\ similarity = NotComputed
    /\ similarity' = CalculateTextSimilarity(text1, text2)
    /\ UNCHANGED <<text1, text2>>
    /\ UNCHANGED notSimVars

NextSim == CallCalculateTextSimilarity

SpecSim == SimInit /\ [][NextSim]_vars

\* ---- C6 ----------------------------------------------------------------

\* the lowercase whitespace-separated words of a text, characterised without
\* split(): the maximal whitespace-free stretches of the lowercased text
WordsOf(text) ==
    LET low == Lower(text)
    IN  {SubSeq(low, a, b) : <<a, b>> \in
            {p \in (1..Len(low)) \X (1..Len(low)) :
                /\ p[1] <= p[2]
                /\ \A k \in p[1]..p[2] : ~IsSpace(low[k])
                /\ (p[1] = 1 \/ IsSpace(low[p[1] - 1]))
                /\ (p[2] = Len(low) \/ IsSpace(low[p[2] + 1]))}}

\* C6: the similarity is the Jaccard index of the lowercase
\* whitespace-separated word sets: it lies in [0,1], is symmetric, is 1 for a
\* text with at least one word compared to itself, is 0 when either text has
\* no words, and lies strictly between 0 and 1 when the word sets overlap but
\* differ.
C6_JaccardSimilarity ==
    similarity # NotComputed =>
        LET w1 == WordsOf(text1)
            w2 == WordsOf(text2)
        IN  /\ FracGe(similarity, Zero) /\ FracGe(One, similarity)
            /\ similarity = CalculateTextSimilarity(text2, text1)
            /\ (w1 # {} /\ w2 # {}) =>
                 similarity = Frac(Cardinality(w1 \cap w2), Cardinality(w1 \cup w2))
            /\ (w1 # {} /\ text1 = text2) => similarity = One
            /\ (w1 = {} \/ w2 = {}) => similarity = Zero
            /\ (w1 \cap w2 # {} /\ w1 # w2) =>
                 (FracGt(similarity, Zero) /\ FracGt(One, similarity))

\* texts that differ in case and spacing only, sharing one word of two
C6_Witness ==
    /\ similarity = <<1, 2>>
    /\ text1 # Lower(text1)
    /\ WordsOf(text1) \cap WordsOf(text2) # {}
    /\ WordsOf(text1) # WordsOf(text2)

====
